---- MODULE Spec2Model ----
(***************************************************************************)
(* Ingestion pipeline of the ai-recruiter backend: document ingestion      *)
(* (parseResume), job-posting ingestion (analyzeJob), the URL helper       *)
(* extractJobFromUrl, the resume normalizer of the OpenAI provider and the *)
(* express error handler.                                                  *)
(*                                                                         *)
(* Texts are run-length encoded: a text is a sequence of runs              *)
(* [ch |-> c, n |-> k], k >= 1, standing for k copies of the character c,  *)
(* with adjacent runs carrying different characters.                       *)
(***************************************************************************)
EXTENDS Integers, Sequences, FiniteSets, TLC

\* ------------------------------------------------------------------ bounds
\* how far around a length threshold the sampled texts reach
Delta == 1
\* longest whitespace padding run in sampled texts
MaxPad == 2
\* largest value of the millisecond clock read by Date.now()
MaxClock == 1

\* ------------------------------------------------------- program constants
\* minimum length of the cleaned extracted text
MinContentLength == 50
\* maximum length of the scraped job content
MaxContentLength == 10000
\* minimum length of a selector match in extractJobFromUrl
SelectorThreshold == 200
\* lower and upper limit of jobText in validateJobAnalysis
JobTextMin == 50
JobTextMax == 10000
\* length of the preview of the job content in the response of analyzeJob
PreviewLength == 500

\* --------------------------------------------------------------- texts
Run(c, k) == [ch |-> c, n |-> k]

\* the characters matched by \s in the sampled texts
WhiteSpace == {" ", "\t", "\n"}

IsWs(c) == c \in WhiteSpace

\* String.prototype.length
RECURSIVE TextLen(_)
TextLen(t) == IF t = <<>> THEN 0 ELSE Head(t).n + TextLen(Tail(t))

\* text.replace(/\s+/g, ' '): every maximal run of whitespace becomes one space
RECURSIVE CollapseFrom(_, _)
CollapseFrom(acc, t) ==
  IF t = <<>> THEN acc
  ELSE IF IsWs(Head(t).ch)
       THEN IF acc # <<>> /\ acc[Len(acc)].ch = " "
            THEN CollapseFrom(acc, Tail(t))
            ELSE CollapseFrom(Append(acc, Run(" ", 1)), Tail(t))
       ELSE CollapseFrom(Append(acc, Head(t)), Tail(t))

CollapseWs(t) == CollapseFrom(<<>>, t)

\* String.prototype.trim
RECURSIVE TrimStart(_)
TrimStart(t) ==
  IF t = <<>> THEN <<>>
  ELSE IF IsWs(Head(t).ch) THEN TrimStart(Tail(t)) ELSE t

RECURSIVE TrimEnd(_)
TrimEnd(t) ==
  IF t = <<>> THEN <<>>
  ELSE IF IsWs(t[Len(t)].ch) THEN TrimEnd(SubSeq(t, 1, Len(t) - 1)) ELSE t

Trim(t) == TrimEnd(TrimStart(t))

\* text.substring(0, k)
RECURSIVE Substring0(_, _)
Substring0(t, k) ==
  IF t = <<>> \/ k <= 0 THEN <<>>
  ELSE IF Head(t).n <= k
       THEN <<Head(t)>> \o Substring0(Tail(t), k - Head(t).n)
       ELSE <<Run(Head(t).ch, k)>>

\* the clean-up of parseResume: extractedText.replace(/\s+/g, ' ').trim()
CleanText(t) == Trim(CollapseWs(t))

\* TRUE iff t has no whitespace run but single inner spaces
IsClean(t) ==
  /\ \A i \in 1..Len(t) : IsWs(t[i].ch) => (t[i].ch = " " /\ t[i].n = 1)
  /\ t # <<>> => (~IsWs(t[1].ch) /\ ~IsWs(t[Len(t)].ch))
  /\ \A i \in 1..(Len(t) - 1) : ~(IsWs(t[i].ch) /\ IsWs(t[i + 1].ch))

\* ----------------------------------------------------------- file names
\* A file name is the sequence of its dot-separated parts:
\* <<"cv", "pdf">> is cv.pdf, <<"", "pdf">> is .pdf, <<"cv">> is cv.

\* path.extname(filename): from the last dot to the end; empty when there is
\* no dot or when the only dot is the first character of the name
ExtName(parts) ==
  IF Len(parts) < 2 THEN ""
  ELSE IF Len(parts) = 2 /\ parts[1] = "" THEN ""
  ELSE "." \o parts[Len(parts)]

\* the extension compared as written, toLowerCase left out
ToLowerCaseNot(s) == s

\* String.prototype.toLowerCase on the sampled extensions
ToLowerCase(s) ==
  CASE s = ".PDF"  -> ".pdf"
    [] s = ".Pdf"  -> ".pdf"
    [] s = ".DOCX" -> ".docx"
    [] s = ".Doc"  -> ".doc"
    [] s = ".TXT"  -> ".txt"
    [] s = ".RTF"  -> ".rtf"
    [] OTHER       -> s

\* ------------------------------------------------------------------ JSON
\* An identifier (object key, enum word) is the one-run text of that word.
Word(w) == <<Run(w, 1)>>

\* JSON values, all of one record shape
JNull == [t |-> "null", s |-> <<>>, keys |-> <<>>, kids |-> <<>>]
JNum == [t |-> "num", s |-> <<>>, keys |-> <<>>, kids |-> <<>>]
JStr(text) == [t |-> "str", s |-> text, keys |-> <<>>, kids |-> <<>>]
JArr(items) == [t |-> "arr", s |-> <<>>, keys |-> <<>>, kids |-> items]
JObj(ks, vs) == [t |-> "obj", s |-> <<>>, keys |-> ks, kids |-> vs]

\* tokens of a response text: punctuation, null, a number, a string literal,
\* or a bare word that is no JSON token (prose, a markdown fence)
Tok(k) == [k |-> k, s |-> <<>>]
TStr(text) == [k |-> "str", s |-> text]

NoParse == [ok |-> FALSE, val |-> JNull, rest |-> <<>>]
Parsed(v, r) == [ok |-> TRUE, val |-> v, rest |-> r]

\* recursive-descent JSON parser over a token sequence
RECURSIVE ParseValue(_)
RECURSIVE ParseElems(_, _)
RECURSIVE ParseMembers(_, _, _)

ParseValue(toks) ==
  IF toks = <<>> THEN NoParse
  ELSE LET h == Head(toks)
           r == Tail(toks)
       IN CASE h.k = "null" -> Parsed(JNull, r)
            [] h.k = "num"  -> Parsed(JNum, r)
            [] h.k = "str"  -> Parsed(JStr(h.s), r)
            [] h.k = "["    ->
                 IF r # <<>> /\ Head(r).k = "]"
                 THEN Parsed(JArr(<<>>), Tail(r))
                 ELSE ParseElems(<<>>, r)
            [] h.k = "{"    ->
                 IF r # <<>> /\ Head(r).k = "}"
                 THEN Parsed(JObj(<<>>, <<>>), Tail(r))
                 ELSE ParseMembers(<<>>, <<>>, r)
            [] OTHER        -> NoParse

\* the elements of a non-empty array, after "[" or ","
ParseElems(acc, toks) ==
  LET e == ParseValue(toks)
  IN IF ~e.ok \/ e.rest = <<>> THEN NoParse
     ELSE CASE Head(e.rest).k = "]" -> Parsed(JArr(Append(acc, e.val)), Tail(e.rest))
            [] Head(e.rest).k = "," -> ParseElems(Append(acc, e.val), Tail(e.rest))
            [] OTHER                -> NoParse

\* the members of a non-empty object, after "{" or ","
ParseMembers(ks, vs, toks) ==
  IF Len(toks) < 2 \/ toks[1].k # "str" \/ toks[2].k # ":" THEN NoParse
  ELSE LET e == ParseValue(Tail(Tail(toks)))
       IN IF ~e.ok \/ e.rest = <<>> THEN NoParse
          ELSE CASE Head(e.rest).k = "}" ->
                      Parsed(JObj(Append(ks, toks[1].s), Append(vs, e.val)), Tail(e.rest))
                 [] Head(e.rest).k = "," ->
                      ParseMembers(Append(ks, toks[1].s), Append(vs, e.val), Tail(e.rest))
                 [] OTHER -> NoParse

\* JSON.parse(content): a value, or a SyntaxError (ok = FALSE)
JSONParse(toks) ==
  LET p == ParseValue(toks)
  IN IF p.ok /\ p.rest = <<>> THEN p ELSE NoParse

\* the value of a key of an object, JNull standing for undefined
RECURSIVE GetFrom(_, _, _)
GetFrom(v, key, i) ==
  IF i > Len(v.keys) THEN JNull
  ELSE IF v.keys[i] = key THEN v.kids[i] ELSE GetFrom(v, key, i + 1)

Get(v, key) == IF v.t = "obj" THEN GetFrom(v, key, 1) ELSE JNull

HasKey(v, key) == v.t = "obj" /\ \E i \in 1..Len(v.keys) : v.keys[i] = key

\* the record returned when the response is no JSON:
\* { extractedText, sections: { contact: {}, experience: [], education: [], skills: [] } }
DegradedRecord(resumeText) ==
  JObj(<<Word("extractedText"), Word("sections")>>,
       <<JStr(resumeText),
         JObj(<<Word("contact"), Word("experience"), Word("education"), Word("skills")>>,
              <<JObj(<<>>, <<>>), JArr(<<>>), JArr(<<>>), JArr(<<>>)>>)>>)

\* JSON.stringify(value), as the token sequence of the text it produces
RECURSIVE Stringify(_)
RECURSIVE StringifyElems(_, _)
RECURSIVE StringifyMembers(_, _)

Stringify(v) ==
  CASE v.t = "null" -> <<Tok("null")>>
    [] v.t = "num"  -> <<Tok("num")>>
    [] v.t = "str"  -> <<TStr(v.s)>>
    [] v.t = "arr"  -> <<Tok("[")>> \o StringifyElems(v.kids, 1) \o <<Tok("]")>>
    [] v.t = "obj"  -> <<Tok("{")>> \o StringifyMembers(v, 1) \o <<Tok("}")>>

StringifyElems(items, i) ==
  IF i > Len(items) THEN <<>>
  ELSE (IF i > 1 THEN <<Tok(",")>> ELSE <<>>)
         \o Stringify(items[i]) \o StringifyElems(items, i + 1)

StringifyMembers(v, i) ==
  IF i > Len(v.keys) THEN <<>>
  ELSE (IF i > 1 THEN <<Tok(",")>> ELSE <<>>)
         \o <<TStr(v.keys[i]), Tok(":")>> \o Stringify(v.kids[i])
         \o StringifyMembers(v, i + 1)

\* ----------------------------------------------------- errors, responses
\* a thrown error: new Error(message) or new ValidationError(message, details)
Err(message) == [name |-> "Error", message |-> message, details |-> FALSE]
ValidationError(message) ==
  [name |-> "ValidationError", message |-> message, details |-> FALSE]
ValidationFailed ==
  [name |-> "ValidationError", message |-> "Validation failed", details |-> TRUE]
NoErr == [name |-> "", message |-> "", details |-> FALSE]

\* the body of an HTTP response, one record shape for all routes
NoResp ==
  [status |-> 0, success |-> FALSE, message |-> "", details |-> FALSE,
   resumeId |-> 0, parsedContent |-> JNull, analysis |-> <<>>, resume |-> <<>>,
   originalContent |-> <<>>, email |-> "", resetLink |-> "", fileId |-> ""]

\* errorHandler(err, req, res, next)
errorHandler(e) ==
  IF e.name = "ValidationError"
  THEN [NoResp EXCEPT !.status = 400, !.message = "Validation Error",
                      !.details = e.details]
  ELSE [NoResp EXCEPT !.status = 500, !.message = "Internal Server Error"]

\* ------------------------------------------------------------ the state
VARIABLES
  pc,       \* pc[r]: the await at which request r is suspended
  inp,      \* inp[r]: req.user and req.body of request r
  loc,      \* loc[r]: the local variables of the handler of request r
  trace,    \* trace[r]: the calls to collaborators made for request r, in order
  err,      \* err[r]: the error handed to next(error), NoErr if none
  resp,     \* resp[r]: the response sent, NoResp while none is sent
  tmpfs,    \* the files of os.tmpdir(): the set of <<name, blob>> pairs
  now,      \* the value Date.now() returns
  resumes,  \* the rows of the resumes table, in insertion order
  closedAt, \* closedAt[r]: Len(trace[r]) when the client of r went away, -1 before
  silent,   \* the requests whose pending call is never answered
  store     \* the users, password_reset_tokens and files tables and the bucket

vars ==
  <<pc, inp, loc, trace, err, resp, tmpfs, now, resumes, closedAt, silent, store>>

Reqs == {1, 2}

\* req.user.id; Absent stands for undefined
Absent == "absent"
Users == {"u1", "u2"}
FileIds == {"f1", "f2"}
\* a fileId that is not a UUID
BadFileId == "not-a-uuid"

FileNames ==
  { <<"cv", "pdf">>, <<"cv", "PDF">>, <<"cv", "docx">>, <<"cv", "Doc">>,
    <<"notes", "txt">>, <<"cv", "rtf">>, <<"cv">>, <<"", "pdf">>,
    <<"cv", "pdf", "exe">> }

\* a row of the files table
FileRows ==
  [id : FileIds, user_id : Users, filename : FileNames, hasPath : BOOLEAN]
NoFile == [id |-> "", user_id |-> "", filename |-> <<>>, hasPath |-> FALSE]

\* sampled document texts around the minimum content length
Lens == {0} \cup ((MinContentLength - Delta)..(MinContentLength + Delta))
Plain(n) == IF n = 0 THEN <<>> ELSE <<Run("a", n)>>
\* n letters with whitespace around them
Padded(n, p) == <<Run(" ", p)>> \o Plain(n) \o <<Run("\t", p), Run(" ", 1)>>
\* two words that take n characters once the gap of p is collapsed
Split(n, p) == <<Run("a", 1), Run(" ", p), Run("b", n - 2)>>
SampleTexts ==
  {Plain(n) : n \in Lens} \cup {Padded(n, MaxPad) : n \in Lens}
    \cup {Split(n, MaxPad) : n \in Lens \ {0}}

\* a stored blob: the document it belongs to and the text it holds
Blobs == [doc : FileIds, text : SampleTexts]
NoBlob == [doc |-> "", text |-> <<>>]

\* Buffer.prototype.toString('utf-8') of a Blob is Object.prototype.toString
ObjectBlobText == <<Run("o", 7), Run(" ", 1), Run("B", 5)>>

\* what axios.post to the chat completions endpoint can do: throw (timeout,
\* non-2xx), answer without choices, or answer with a content text
ApiThrow(message) == [kind |-> "throw", message |-> message, content |-> <<>>]
ApiNoChoices == [kind |-> "malformed", message |-> "", content |-> <<>>]
ApiContent(toks) == [kind |-> "content", message |-> "", content |-> toks]
NoApi == [kind |-> "", message |-> "", content |-> <<>>]

\* the number of entries of jobSelectors
NumSelectors == 10

\* what $(selector) finds in a page: nothing, or elements with a text
NoElem == [present |-> FALSE, text |-> <<>>]
Elem(text) == [present |-> TRUE, text |-> text]

\* a fetched page: the text of body without script and style, and for every
\* entry of jobSelectors what it selects
Page(body, sel) == [body |-> body, sel |-> sel]
NoPage == Page(<<>>, [i \in 1..NumSelectors |-> NoElem])

\* ------------------------------------- accounts, reset tokens, stored files
\* the users table holds one account
RegisteredEmail == "ann@example.com"
Emails == {RegisteredEmail, "nobody@example.com"}

\* SELECT ... FROM users WHERE email = $1: the id of the row, Absent if none
UserByEmail(email) == IF email = RegisteredEmail THEN "u1" ELSE Absent

\* the values crypto.randomBytes(32).toString('hex') is sampled from
TokenNames == {"t1", "t2", "t3"}

\* newPassword.length < 6
MinPasswordLength == 6
\* const saltRounds = 10
SaltRounds == 10
\* expiresAt.setHours(expiresAt.getHours() + 1), the clock counting hours
TokenLifetime == 1

\* sampled passwords around the minimum length, the empty one among them
Passwords ==
  { <<>>, <<Run("p", MinPasswordLength - 1)>>, <<Run("p", MinPasswordLength)>>,
    <<Run("q", MinPasswordLength)>> }

\* bcrypt.hash(password, saltRounds), the salt left out
Hash(password) == [rounds |-> SaltRounds, of |-> password]
OldHash == Hash(<<Run("o", 8)>>)

\* a row of password_reset_tokens
TokenRow(token, user, used, expires, created) ==
  [token |-> token, user_id |-> user, used |-> used, expires_at |-> expires,
   created_at |-> created]
NoToken == TokenRow("", "", FALSE, 0, 0)

\* a row of the files table as deleteFile reads it
StoredFile(id, user) == [id |-> id, user_id |-> user]

\* the tables and the bucket: tokens in insertion order, hash the
\* password_hash of the account, files the file rows, blobs the ids of the
\* files whose blob is in the bucket
FreshStore ==
  [tokens |-> <<>>, hash |-> OldHash,
   files |-> {StoredFile("f1", "u1"), StoredFile("f2", "u2")},
   blobs |-> {"f1", "f2"}]

\* the locals of a handler; extracted, rawText: the text an extractor
\* returned; api: the outcome of the text-generation call; primary, fallback:
\* "ok" or "failed" once the strategy was tried; page: the page it loaded
NoLoc ==
  [fileRec |-> NoFile, bufKind |-> "", blob |-> NoBlob, tempFile |-> -1,
   parsedBlob |-> NoBlob, extracted |-> FALSE, rawText |-> <<>>,
   extractedText |-> <<>>, api |-> NoApi, parsedContent |-> JNull,
   primary |-> "", fallback |-> "", page |-> NoPage, jobContent |-> <<>>,
   primaryError |-> "", fallbackError |-> "",
   user |-> Absent, newToken |-> "", expiresAt |-> 0, tokenRow |-> NoToken,
   hashed |-> OldHash, storageDeleted |-> FALSE]

NoInp == [route |-> "", userId |-> Absent, fileId |-> Absent, hasResume |-> FALSE,
          hasUrl |-> FALSE, jobUrl |-> "", hasText |-> FALSE, jobText |-> <<>>,
          email |-> "", resetToken |-> "", newPassword |-> <<>>]

\* no request has arrived
InitRequests ==
  /\ pc = [r \in Reqs |-> "idle"]
  /\ inp = [r \in Reqs |-> NoInp]
  /\ loc = [r \in Reqs |-> NoLoc]
  /\ trace = [r \in Reqs |-> <<>>]
  /\ err = [r \in Reqs |-> NoErr]
  /\ resp = [r \in Reqs |-> NoResp]
  /\ tmpfs = {}
  /\ now = 0
  /\ resumes = <<>>
  /\ closedAt = [r \in Reqs |-> -1]
  /\ silent = {}

Init == InitRequests /\ store = FreshStore

\* ---------------------------------------------- moves of one request
\* request r goes on to its next await
Move(r, newPc, newLoc, events) ==
  /\ pc' = [pc EXCEPT ![r] = newPc]
  /\ loc' = [loc EXCEPT ![r] = newLoc]
  /\ trace' = [trace EXCEPT ![r] = @ \o events]
  /\ UNCHANGED <<err, resp, closedAt, silent>>

\* the same, by a handler that writes no table
Step(r, newPc, newLoc, events) ==
  Move(r, newPc, newLoc, events) /\ UNCHANGED store

\* request r throws e: the catch block calls next(error), errorHandler answers
Raise(r, newLoc, events, e) ==
  /\ pc' = [pc EXCEPT ![r] = "done"]
  /\ loc' = [loc EXCEPT ![r] = newLoc]
  /\ trace' = [trace EXCEPT ![r] = @ \o events]
  /\ err' = [err EXCEPT ![r] = e]
  /\ resp' = [resp EXCEPT ![r] = errorHandler(e)]
  /\ UNCHANGED <<closedAt, silent>>

\* the same, by a handler that writes no table
Throw(r, newLoc, events, e) == Raise(r, newLoc, events, e) /\ UNCHANGED store

\* request r answers 200 with body
Answer(r, newLoc, events, body) ==
  /\ pc' = [pc EXCEPT ![r] = "done"]
  /\ loc' = [loc EXCEPT ![r] = newLoc]
  /\ trace' = [trace EXCEPT ![r] = @ \o events]
  /\ resp' = [resp EXCEPT ![r] = body]
  /\ UNCHANGED <<err, closedAt, silent>>

\* the same, by a handler that writes no table
Respond(r, newLoc, events, body) ==
  Answer(r, newLoc, events, body) /\ UNCHANGED store

\* the catch (extractionError) block of parseResume
ExtractionError(message) == Err("Failed to extract text from file: " \o message)

\* Date.now() advances
Tick ==
  /\ now < MaxClock
  /\ now' = now + 1
  /\ UNCHANGED <<pc, inp, loc, trace, err, resp, tmpfs, resumes, closedAt, silent, store>>

\* ------------------------------------------------- text-generation API
\* { "sections": { "skills": ["x"] } }
GoodResumeJson ==
  <<Tok("{"), TStr(Word("sections")), Tok(":"), Tok("{"), TStr(Word("skills")),
    Tok(":"), Tok("["), TStr(Word("x")), Tok("]"), Tok("}"), Tok("}")>>

\* sampled content texts of the model for the resume text
ResumeContents(resumeText) ==
  { GoodResumeJson,
    <<Tok("num")>>, <<Tok("null")>>, <<TStr(Word("x"))>>,
    <<Tok("["), Tok("]")>>, <<Tok("{"), Tok("}")>>,
    Stringify(DegradedRecord(resumeText)),
    <<>>,
    <<Tok("Here"), Tok("is")>>,
    <<Tok("fence"), Tok("{"), Tok("}"), Tok("fence")>>,
    <<Tok("{"), TStr(Word("sections")), Tok(":")>>,
    <<Tok("{"), Tok("}"), Tok("}")>>,
    <<Tok("["), Tok("num"), Tok(","), Tok("]")>> }

ApiOutcomes(contents) ==
  {ApiThrow("connect ECONNREFUSED 104.18.6.192:443"),
   ApiThrow("Request failed with status code 429"), ApiNoChoices}
    \cup {ApiContent(c) : c \in contents}

NoResult == [success |-> FALSE, error |-> "", content |-> <<>>, data |-> JNull]

\* OpenAIProvider.generateContent: the outcome of the call as a result object
generateContent(api) ==
  CASE api.kind = "content" ->
         [NoResult EXCEPT !.success = TRUE, !.content = api.content]
    [] api.kind = "malformed" ->
         [NoResult EXCEPT !.error = "Invalid response format from OpenAI"]
    [] OTHER -> [NoResult EXCEPT !.error = api.message]

\* parseResumeAI reporting a content that is no JSON as a failure
parseResumeAIStrict(resumeText, api) ==
  LET result == generateContent(api)
      parsed == JSONParse(result.content)
  IN IF ~result.success THEN result
     ELSE IF parsed.ok
          THEN [NoResult EXCEPT !.success = TRUE, !.data = parsed.val]
          ELSE [NoResult EXCEPT !.error = "Unexpected token in JSON"]

\* OpenAIProvider.parseResume(resumeText), given the outcome of its call
parseResumeAI(resumeText, api) ==
  LET result == generateContent(api)
      parsed == JSONParse(result.content)
  IN IF ~result.success THEN result
     ELSE IF parsed.ok
          THEN [NoResult EXCEPT !.success = TRUE, !.data = parsed.val]
          ELSE [NoResult EXCEPT !.success = TRUE,
                                !.data = DegradedRecord(resumeText)]

\* ----------------------------------------------------------- parseResume
\* the validateResumeUpload chain: fileId trimmed, not empty, a UUID
ResumeUploadValid(fileId) == fileId \in FileIds

\* POST /resumes/parse: validation, then parseResume up to db.getFileById
ParseStart(r) ==
  /\ pc[r] = "idle"
  /\ \E userId \in Users \cup {Absent}, fileId \in FileIds \cup {Absent, BadFileId} :
       /\ inp' = [inp EXCEPT ![r] =
                    [NoInp EXCEPT !.route = "parseResume", !.userId = userId,
                                  !.fileId = fileId]]
       /\ IF ~ResumeUploadValid(fileId)
          THEN Throw(r, loc[r], <<>>, ValidationFailed)
          ELSE IF userId = Absent
          THEN Throw(r, loc[r], <<>>, ValidationError("User not authenticated"))
          ELSE IF fileId = Absent
          THEN Throw(r, loc[r], <<>>, ValidationError("File ID is required"))
          ELSE Step(r, "getFile", loc[r], <<"getFileById">>)
  /\ UNCHANGED <<tmpfs, now, resumes>>

\* FileCheck without the comparison of the owner with the requesting user
FileCheckNoOwner(found, row, userId) ==
  IF ~found THEN ValidationError("File not found")
  ELSE IF ~row.hasPath
       THEN ExtractionError("File path or bucket information is missing")
       ELSE NoErr

\* the check of the file record in parseResume
FileCheck(found, row, userId) ==
  IF ~found THEN ValidationError("File not found")
  ELSE IF row.user_id # userId THEN ValidationError("Access denied")
  ELSE IF ~row.hasPath
       THEN ExtractionError("File path or bucket information is missing")
       ELSE NoErr

\* db.getFileById answers: the record is checked, the download starts
GetFileDone(r) ==
  /\ pc[r] = "getFile"
  /\ r \notin silent
  /\ \E found \in BOOLEAN, row \in FileRows :
       /\ row.id = inp[r].fileId
       /\ ~found => row = CHOOSE x \in FileRows : x.id = inp[r].fileId
       /\ LET e == FileCheck(found, row, inp[r].userId)
              l == IF found THEN [loc[r] EXCEPT !.fileRec = row] ELSE loc[r]
          IN IF e # NoErr
             THEN Throw(r, l, <<>>, e)
             ELSE Step(r, "download", l, <<"download">>)
  /\ UNCHANGED <<inp, tmpfs, now, resumes>>

\* fs.unlinkSync(tempFile): removes the file of that name; with no such file
\* it throws ENOENT, which the catch around it logs, and nothing changes
Unlink(fs, name) == {f \in fs : f[1] # name}

\* what a writeFileSync that fails half way leaves of a buffer
PartialBlob(blob) == [blob EXCEPT !.text = <<>>]

\* a write that leaves a file that exists already as it is
WriteFileKeep(fs, name, blob) ==
  IF \E f \in fs : f[1] = name THEN fs ELSE fs \cup {<<name, blob>>}

\* fs.writeFileSync(tempFile, buffer): creates or overwrites the file
WriteFile(fs, name, blob) == {f \in fs : f[1] # name} \cup {<<name, blob>>}

\* fs.readFileSync(tempFile)
ReadFile(fs, name) == (CHOOSE f \in fs : f[1] = name)[2]

\* TextCheck without the length check
TextCheckNone(rawText) == NoErr

\* TextCheck measuring the text as extracted, before the clean-up
TextCheckRaw(rawText) ==
  IF TextLen(rawText) < MinContentLength
  THEN ExtractionError("Could not extract meaningful text from the file")
  ELSE NoErr

\* the clean-up and the length check that follow every extraction
TextCheck(rawText) ==
  IF TextLen(CleanText(rawText)) < MinContentLength
  THEN ExtractionError("Could not extract meaningful text from the file")
  ELSE NoErr

\* AfterExtract handing the text to db.createResume without the model call
AfterExtractPersistFirst(r, l, events, rawText) ==
  LET e == TextCheck(rawText)
      l2 == [l EXCEPT !.extracted = TRUE, !.rawText = rawText,
                      !.extractedText = CleanText(rawText)]
  IN IF e # NoErr
     THEN Throw(r, l2, events, e)
     ELSE Step(r, "createResume", l2, events \o <<"createResume">>)

\* after the extraction of rawText: clean, check, call aiProvider.parseResume
AfterExtract(r, l, events, rawText) ==
  LET e == TextCheck(rawText)
      l2 == [l EXCEPT !.extracted = TRUE, !.rawText = rawText,
                      !.extractedText = CleanText(rawText)]
  IN IF e # NoErr
     THEN Throw(r, l2, events, e)
     ELSE Step(r, "model", l2, events \o <<"model">>)

\* the PDF branch from writeFileSync to the call of pdfParse
PdfWrite(r, l, events) ==
  \E writeOk \in BOOLEAN, created \in BOOLEAN :
    IF writeOk
    THEN /\ tmpfs' = WriteFile(tmpfs, l.tempFile, l.blob)
         /\ Step(r, "pdfParse",
                 [l EXCEPT !.parsedBlob =
                             ReadFile(WriteFile(tmpfs, l.tempFile, l.blob), l.tempFile)],
                 events \o <<"tempWrite", "tempRead", "pdfParse">>)
    ELSE /\ tmpfs' = Unlink(IF created
                            THEN WriteFile(tmpfs, l.tempFile, PartialBlob(l.blob))
                            ELSE tmpfs,
                            l.tempFile)
         /\ Throw(r, l, events \o <<"tempWrite", "tempUnlink">>,
                  ExtractionError("PDF extraction failed: " \o "ENOSPC: no space left on device"))

\* the extractor chosen for a lower-cased extension
Dispatch(ext) ==
  CASE ext = ".pdf"  -> "pdf"
    [] ext = ".docx" -> "docx"
    [] ext = ".doc"  -> "doc"
    [] ext = ".txt"  -> "txt"
    [] OTHER         -> "unsupported"

\* fileBuffer.toString('utf-8')
Utf8(kind, blob) == IF kind = "Blob" THEN ObjectBlobText ELSE blob.text

\* storage download answers: dispatch on the extension
DownloadDone(r) ==
  /\ pc[r] = "download"
  /\ r \notin silent
  /\ \E outcome \in {"error", "empty", "Buffer", "Blob"}, blob \in Blobs :
       /\ blob.doc = loc[r].fileRec.id
       /\ outcome \in {"error", "empty"} =>
            blob = CHOOSE b \in Blobs : b.doc = loc[r].fileRec.id
       /\ LET ext == ToLowerCase(ExtName(loc[r].fileRec.filename))
              l == [loc[r] EXCEPT !.bufKind = outcome, !.blob = blob]
          IN CASE outcome = "error" ->
                    /\ Throw(r, loc[r], <<>>,
                             ExtractionError("Failed to download file: " \o "Object not found"))
                    /\ UNCHANGED tmpfs
               [] outcome = "empty" ->
                    /\ Throw(r, loc[r], <<>>, ExtractionError("Downloaded file is empty"))
                    /\ UNCHANGED tmpfs
               [] OTHER ->
                    CASE Dispatch(ext) = "pdf" ->
                           IF outcome = "Blob"
                           THEN /\ Step(r, "pdfBlob", [l EXCEPT !.tempFile = now],
                                        <<"arrayBuffer">>)
                                /\ UNCHANGED tmpfs
                           ELSE PdfWrite(r, [l EXCEPT !.tempFile = now], <<>>)
                      [] Dispatch(ext) \in {"docx", "doc"} ->
                           /\ Step(r, "mammoth", l, <<"mammoth">>)
                           /\ UNCHANGED tmpfs
                      [] Dispatch(ext) = "txt" ->
                           /\ AfterExtract(r, l, <<"utf8">>, Utf8(outcome, blob))
                           /\ UNCHANGED tmpfs
                      [] OTHER ->
                           /\ Throw(r, l, <<>>,
                                    ExtractionError("Unsupported file type: " \o ext))
                           /\ UNCHANGED tmpfs
  /\ UNCHANGED <<inp, now, resumes>>

\* fileBuffer.arrayBuffer() answers: the Blob is written as a Buffer
PdfBlobDone(r) ==
  /\ pc[r] = "pdfBlob"
  /\ PdfWrite(r, loc[r], <<>>)
  /\ UNCHANGED <<inp, now, resumes>>

\* PdfParseDone unlinking after the last statement of the try block only
PdfParseDoneNoFinally(r) ==
  /\ pc[r] = "pdfParse"
  /\ \E parseOk \in BOOLEAN :
       IF ~parseOk
       THEN /\ UNCHANGED tmpfs
            /\ Throw(r, loc[r], <<>>,
                     ExtractionError("PDF extraction failed: " \o "Invalid PDF structure"))
       ELSE IF loc[r].parsedBlob.text = <<>>
       THEN /\ UNCHANGED tmpfs
            /\ Throw(r, loc[r], <<>>,
                     ExtractionError("PDF extraction failed: " \o "No content found in PDF"))
       ELSE /\ tmpfs' = Unlink(tmpfs, loc[r].tempFile)
            /\ AfterExtract(r, loc[r], <<"tempUnlink">>, loc[r].parsedBlob.text)
  /\ UNCHANGED <<inp, now, resumes>>

\* pdfParse answers or throws; the finally block unlinks the temp file
PdfParseDone(r) ==
  /\ pc[r] = "pdfParse"
  /\ \E parseOk \in BOOLEAN :
       /\ tmpfs' = Unlink(tmpfs, loc[r].tempFile)
       /\ IF ~parseOk
          THEN Throw(r, loc[r], <<"tempUnlink">>,
                     ExtractionError("PDF extraction failed: " \o "Invalid PDF structure"))
          ELSE IF loc[r].parsedBlob.text = <<>>
          THEN Throw(r, loc[r], <<"tempUnlink">>,
                     ExtractionError("PDF extraction failed: " \o "No content found in PDF"))
          ELSE AfterExtract(r, loc[r], <<"tempUnlink">>, loc[r].parsedBlob.text)
  /\ UNCHANGED <<inp, now, resumes>>

\* mammoth.extractRawText answers or throws
MammothDone(r) ==
  /\ pc[r] = "mammoth"
  /\ \E ok \in BOOLEAN :
       LET kind == Dispatch(ToLowerCase(ExtName(loc[r].fileRec.filename)))
           prefix == IF kind = "docx" THEN "DOCX extraction failed: "
                                      ELSE "DOC extraction failed: "
       IN IF ~ok
          THEN Throw(r, loc[r], <<>>,
                     ExtractionError(prefix \o "Could not find the body element"))
          ELSE AfterExtract(r, loc[r], <<>>, loc[r].blob.text)
  /\ UNCHANGED <<inp, tmpfs, now, resumes>>

\* ParseModelDone calling the model a second time when the first call failed
ParseModelDoneRetry(r) ==
  /\ pc[r] = "model"
  /\ r \notin silent
  /\ inp[r].route = "parseResume"
  /\ \E api \in ApiOutcomes(ResumeContents(loc[r].extractedText)) :
       LET parseResult == parseResumeAI(loc[r].extractedText, api)
           l == [loc[r] EXCEPT !.api = api]
       IN IF ~parseResult.success
          THEN IF Len(SelectSeq(trace[r], LAMBDA ev : ev = "model")) < 2
               THEN Step(r, "model", l, <<"model">>)
               ELSE Throw(r, l, <<>>, Err(parseResult.error))
          ELSE Step(r, "createResume",
                    [l EXCEPT !.parsedContent = parseResult.data],
                    <<"createResume">>)
  /\ UNCHANGED <<inp, tmpfs, now, resumes>>

\* aiProvider.parseResume answers: the record is handed to db.createResume
ParseModelDone(r) ==
  /\ pc[r] = "model"
  /\ r \notin silent
  /\ inp[r].route = "parseResume"
  /\ \E api \in ApiOutcomes(ResumeContents(loc[r].extractedText)) :
       LET parseResult == parseResumeAI(loc[r].extractedText, api)
           l == [loc[r] EXCEPT !.api = api]
       IN IF ~parseResult.success
          THEN Throw(r, l, <<>>, Err(parseResult.error))
          ELSE Step(r, "createResume",
                    [l EXCEPT !.parsedContent = parseResult.data],
                    <<"createResume">>)
  /\ UNCHANGED <<inp, tmpfs, now, resumes>>

\* the row parseResume hands to db.createResume; by: the request it is from
ResumeData(r) ==
  [by |-> r, id |-> Len(resumes) + 1, user_id |-> inp[r].userId,
   title |-> loc[r].fileRec.filename, file |-> loc[r].fileRec.id,
   content |-> Stringify(loc[r].parsedContent)]

\* CreateResumeDone answering success whatever the insert did
CreateResumeDoneOptimistic(r) ==
  /\ pc[r] = "createResume"
  /\ r \notin silent
  /\ \E ok \in BOOLEAN :
       /\ resumes' = IF ok THEN Append(resumes, ResumeData(r)) ELSE resumes
       /\ Respond(r, loc[r], <<"respond">>,
                  [NoResp EXCEPT !.status = 200, !.success = TRUE,
                                 !.resumeId = Len(resumes) + 1,
                                 !.parsedContent = loc[r].parsedContent])
  /\ UNCHANGED <<inp, tmpfs, now>>

\* db.createResume answers: the response is sent
CreateResumeDone(r) ==
  /\ pc[r] = "createResume"
  /\ r \notin silent
  /\ \E ok \in BOOLEAN :
       IF ok
       THEN /\ resumes' = Append(resumes, ResumeData(r))
            /\ Respond(r, loc[r], <<"respond">>,
                       [NoResp EXCEPT !.status = 200, !.success = TRUE,
                                      !.resumeId = Len(resumes) + 1,
                                      !.parsedContent = loc[r].parsedContent])
       ELSE /\ UNCHANGED resumes
            /\ Throw(r, loc[r], <<>>, Err("duplicate key value violates unique constraint"))
  /\ UNCHANGED <<inp, tmpfs, now>>

\* ------------------------------------------------------------ web pages
With(sel, i, text) == [sel EXCEPT ![i] = Elem(text)]

\* a job-description block of n characters, whitespace around it
Block(n) == <<Run("\n", MaxPad), Run("j", n), Run(" ", MaxPad)>>
\* a block holding an uncollapsed gap, of n characters once trimmed
GapBlock(n) ==
  <<Run(" ", 1), Run("j", 100), Run(" ", 3), Run("k", n - 103), Run("\t", 1)>>
Header == <<Run("h", 50)>>
Footer == <<Run("f", 60)>>

SamplePages ==
  { \* a div class="job-description" above the threshold: selectors 1 and 3
    Page(Header \o Block(SelectorThreshold + 100) \o Footer,
         With(With(NoPage.sel, 1, Block(SelectorThreshold + 100)),
              3, Block(SelectorThreshold + 100))),
    \* nothing selected
    Page(Header \o <<Run(" ", MaxPad)>> \o Footer, NoPage.sel),
    \* a job block of exactly the threshold, main one above it
    Page(Header \o Block(SelectorThreshold) \o Footer,
         With(With(NoPage.sel, 1, Block(SelectorThreshold)),
              7, Header \o Block(SelectorThreshold) \o Footer)),
    \* a block with a gap in it
    Page(Header \o GapBlock(SelectorThreshold + Delta) \o Footer,
         With(NoPage.sel, 3, GapBlock(SelectorThreshold + Delta))),
    \* a body and an article longer than the maximum content length
    Page(Block(MaxContentLength + Delta) \o Footer,
         With(NoPage.sel, 8, Block(MaxContentLength + Delta))),
    \* a body of exactly the maximum content length once cleaned
    Page(Block(MaxContentLength), NoPage.sel) }

\* what a page load can do: throw, or deliver a page
LoadErrors == {"timeout of 10000ms exceeded", "Request failed with status code 404"}
LoadFail(message) == [ok |-> FALSE, page |-> NoPage, message |-> message]
Loaded(page) == [ok |-> TRUE, page |-> page, message |-> ""]
LoadOutcomes ==
  {LoadFail(m) : m \in LoadErrors} \cup {Loaded(p) : p \in SamplePages}

\* Truncate cutting one character early, from the maximum length on
TruncateOffByOne(t) ==
  IF TextLen(t) >= MaxContentLength THEN Substring0(t, MaxContentLength - 1) ELSE t

\* jobContent.substring(0, 10000) when jobContent is longer
Truncate(t) ==
  IF TextLen(t) > MaxContentLength THEN Substring0(t, MaxContentLength) ELSE t


\* scrapeJobWithPlaywright(jobUrl) on a rendered page: the text of the page
\* collapsed, trimmed and cut to the maximum content length
scrapeJobWithPlaywright(page) == Truncate(CleanText(page.body))

\* text.replace(/\n+/g, '\n')
RECURSIVE CollapseNewlines(_)
CollapseNewlines(t) ==
  IF t = <<>> THEN <<>>
  ELSE (IF Head(t).ch = "\n" THEN <<Run("\n", 1)>> ELSE <<Head(t)>>)
         \o CollapseNewlines(Tail(t))

\* the loop over jobSelectors of extractJobFromUrl, from entry i on:
\* the trimmed text of the first entry that selects more than the threshold
RECURSIVE SelectFrom(_, _, _)
SelectFrom(page, i, fallback) ==
  IF i > NumSelectors THEN fallback
  ELSE IF page.sel[i].present /\ TextLen(Trim(page.sel[i].text)) > SelectorThreshold
       THEN Trim(page.sel[i].text)
       ELSE SelectFrom(page, i + 1, fallback)

\* the fallback picking the first selector above the threshold
FallbackContentSelectors(page) ==
  Truncate(CleanText(SelectFrom(page, 1, page.body)))

\* the fallback of analyzeJob: $('body').text().replace(/\s+/g, ' ').trim(),
\* cut to the maximum content length
FallbackContent(page) == Truncate(CleanText(page.body))

\* extractJobFromUrl(jobUrl) on a fetched page: the data it returns
extractJobFromUrl(page) ==
  SelectFrom(page, 1, Trim(CollapseNewlines(CollapseWs(page.body))))

\* -------------------------------------------------------------- analyzeJob
ValidUrls == {"https://jobs.example/1"}
SampleUrls == ValidUrls \cup {"", "jobs example"}

\* isURL of express-validator on the sampled values
IsURL(u) == u \in ValidUrls

JobTexts ==
  { <<>>, Plain(JobTextMin - 1), Plain(JobTextMin), Padded(JobTextMin, MaxPad),
    Padded(JobTextMin - 1, MaxPad), Plain(JobTextMax + 1) }

\* the validateJobAnalysis chain: both fields optional, jobUrl a URL,
\* jobText of 50 to 10,000 characters once trimmed
JobAnalysisValid(hasUrl, jobUrl, hasText, jobText) ==
  /\ hasUrl => IsURL(jobUrl)
  /\ hasText => /\ TextLen(Trim(jobText)) >= JobTextMin
                /\ TextLen(Trim(jobText)) <= JobTextMax

\* the guard refusing a request with both inputs as well
NoJobInputExactlyOne(hasUrl, jobUrl, hasText, jobText) ==
  (~hasUrl \/ jobUrl = "") <=> (~hasText \/ jobText = <<>>)

\* the guard left out
NoJobInputNever(hasUrl, jobUrl, hasText, jobText) == FALSE

\* the guard of analyzeJob: !jobUrl && !jobText
NoJobInput(hasUrl, jobUrl, hasText, jobText) ==
  (~hasUrl \/ jobUrl = "") /\ (~hasText \/ jobText = <<>>)

\* POST /ai/analyze-job: validation, then analyzeJob up to its first await
AnalyzeStart(r) ==
  /\ pc[r] = "idle"
  /\ \E hasUrl \in BOOLEAN, jobUrl \in SampleUrls,
        hasText \in BOOLEAN, jobText \in JobTexts :
       /\ ~hasUrl => jobUrl = ""
       /\ ~hasText => jobText = <<>>
       /\ LET body == IF hasText THEN Trim(jobText) ELSE jobText
              l == [loc[r] EXCEPT !.jobContent = body]
          IN /\ inp' = [inp EXCEPT ![r] =
                          [NoInp EXCEPT !.route = "analyzeJob", !.hasUrl = hasUrl,
                                        !.jobUrl = jobUrl, !.hasText = hasText,
                                        !.jobText = body]]
             /\ IF ~JobAnalysisValid(hasUrl, jobUrl, hasText, jobText)
                THEN Throw(r, loc[r], <<>>, ValidationFailed)
                ELSE IF NoJobInput(hasUrl, jobUrl, hasText, body)
                THEN Throw(r, loc[r], <<>>,
                           ValidationError("Either job URL or job text is required"))
                ELSE IF hasUrl /\ jobUrl # ""
                THEN Step(r, "render", l, <<"render">>)
                ELSE Step(r, "model", l, <<"model">>)
  /\ UNCHANGED <<tmpfs, now, resumes>>

\* RenderDone without the fallback: a throw of the renderer ends the request
RenderDoneNoFallback(r) ==
  /\ pc[r] = "render"
  /\ \E out \in LoadOutcomes :
       IF out.ok
       THEN Step(r, "model",
                 [loc[r] EXCEPT !.primary = "ok", !.page = out.page,
                                !.jobContent = scrapeJobWithPlaywright(out.page)],
                 <<"model">>)
       ELSE Throw(r, [loc[r] EXCEPT !.primary = "failed", !.primaryError = out.message],
                  <<>>,
                  ValidationError("Failed to extract content from the provided URL"))
  /\ UNCHANGED <<inp, tmpfs, now, resumes>>

\* scrapeJobWithPlaywright answers or throws: on a throw the fallback fetches
RenderDone(r) ==
  /\ pc[r] = "render"
  /\ \E out \in LoadOutcomes :
       IF out.ok
       THEN Step(r, "model",
                 [loc[r] EXCEPT !.primary = "ok", !.page = out.page,
                                !.jobContent = scrapeJobWithPlaywright(out.page)],
                 <<"model">>)
       ELSE Step(r, "fetch",
                 [loc[r] EXCEPT !.primary = "failed", !.primaryError = out.message],
                 <<"fetch">>)
  /\ UNCHANGED <<inp, tmpfs, now, resumes>>

\* FetchDone swallowing the failure: the model is called without content
FetchDoneSwallow(r) ==
  /\ pc[r] = "fetch"
  /\ \E out \in LoadOutcomes :
       IF out.ok
       THEN Step(r, "model",
                 [loc[r] EXCEPT !.fallback = "ok", !.page = out.page,
                                !.jobContent = FallbackContent(out.page)],
                 <<"model">>)
       ELSE Step(r, "model",
                 [loc[r] EXCEPT !.fallback = "failed", !.fallbackError = out.message],
                 <<"model">>)
  /\ UNCHANGED <<inp, tmpfs, now, resumes>>

\* the axios.get of the fallback answers or throws
FetchDone(r) ==
  /\ pc[r] = "fetch"
  /\ \E out \in LoadOutcomes :
       IF out.ok
       THEN Step(r, "model",
                 [loc[r] EXCEPT !.fallback = "ok", !.page = out.page,
                                !.jobContent = FallbackContent(out.page)],
                 <<"model">>)
       ELSE Throw(r, [loc[r] EXCEPT !.fallback = "failed", !.fallbackError = out.message],
                  <<>>,
                  ValidationError("Failed to extract content from the provided URL"))
  /\ UNCHANGED <<inp, tmpfs, now, resumes>>

\* sampled content texts of the model for a job analysis or a resume
ProseContents == { <<Tok("Key"), Tok("skills")>> }

\* the originalContent of the response: jobContent.substring(0, 500) + '...'
Preview(jobContent) == Substring0(jobContent, PreviewLength) \o <<Run(".", 3)>>

\* aiProvider.analyzeJob answers: the response is sent
AnalyzeModelDone(r) ==
  /\ pc[r] = "model"
  /\ r \notin silent
  /\ inp[r].route = "analyzeJob"
  /\ \E api \in ApiOutcomes(ProseContents) :
       LET result == generateContent(api)
           l == [loc[r] EXCEPT !.api = api]
       IN IF ~result.success
          THEN Throw(r, l, <<>>, Err(result.error))
          ELSE Respond(r, l, <<"respond">>,
                       [NoResp EXCEPT !.status = 200, !.success = TRUE,
                                      !.analysis = result.content,
                                      !.originalContent = Preview(loc[r].jobContent)])
  /\ UNCHANGED <<inp, tmpfs, now, resumes>>

\* ---------------------------------------------------------- generateResume
\* POST /ai/generate-resume: generateResume up to its first await
GenerateStart(r) ==
  /\ pc[r] = "idle"
  /\ \E hasResume \in BOOLEAN, hasUrl \in BOOLEAN, hasDesc \in BOOLEAN :
       LET desc == IF hasDesc THEN Plain(JobTextMin) ELSE <<>>
           l == [loc[r] EXCEPT !.jobContent = desc]
       IN /\ inp' = [inp EXCEPT ![r] =
                       [NoInp EXCEPT !.route = "generateResume",
                                     !.hasResume = hasResume, !.hasUrl = hasUrl,
                                     !.jobUrl = IF hasUrl THEN "https://jobs.example/1" ELSE "",
                                     !.hasText = hasDesc, !.jobText = desc]]
          /\ IF ~hasResume
             THEN Throw(r, loc[r], <<>>, Err("Resume content is required"))
             ELSE IF hasUrl /\ ~hasDesc
             THEN Step(r, "extract", l, <<"fetch">>)
             ELSE IF ~hasDesc /\ ~hasUrl
             THEN Throw(r, loc[r], <<>>,
                        Err("Either job description or job URL is required"))
             ELSE Step(r, "model", l, <<"model">>)
  /\ UNCHANGED <<tmpfs, now, resumes>>

\* extractJobFromUrl answers
ExtractDone(r) ==
  /\ pc[r] = "extract"
  /\ \E out \in LoadOutcomes :
       IF out.ok
       THEN Step(r, "model",
                 [loc[r] EXCEPT !.fallback = "ok", !.page = out.page,
                                !.jobContent = extractJobFromUrl(out.page)],
                 <<"model">>)
       ELSE Throw(r, [loc[r] EXCEPT !.fallback = "failed", !.fallbackError = out.message],
                  <<>>,
                  Err("Failed to extract job content from URL: " \o out.message))
  /\ UNCHANGED <<inp, tmpfs, now, resumes>>

\* aiProvider.generateResume answers: the response is sent
GenerateModelDone(r) ==
  /\ pc[r] = "model"
  /\ r \notin silent
  /\ inp[r].route = "generateResume"
  /\ \E api \in ApiOutcomes(ProseContents) :
       LET result == generateContent(api)
           l == [loc[r] EXCEPT !.api = api]
       IN IF ~result.success
          THEN Throw(r, l, <<>>, Err(result.error))
          ELSE Respond(r, l, <<"respond">>,
                       [NoResp EXCEPT !.status = 200, !.success = TRUE,
                                      !.resume = result.content])
  /\ UNCHANGED <<inp, tmpfs, now, resumes>>

\* ------------------------------------------------------- specification
\* one request is served, of any of the three routes
Next ==
  \/ Tick
  \/ ParseStart(1)
  \/ GetFileDone(1)
  \/ DownloadDone(1)
  \/ PdfBlobDone(1)
  \/ PdfParseDone(1)
  \/ MammothDone(1)
  \/ ParseModelDone(1)
  \/ CreateResumeDone(1)
  \/ AnalyzeStart(1)
  \/ RenderDone(1)
  \/ FetchDone(1)
  \/ AnalyzeModelDone(1)
  \/ GenerateStart(1)
  \/ ExtractDone(1)
  \/ GenerateModelDone(1)

Spec == Init /\ [][Next]_vars

\* ------------------------------------------------ requestPasswordReset
NoEmailResult == [success |-> FALSE, resetLink |-> "", error |-> ""]

\* `${frontendUrl}/reset-password?token=${resetToken}`
ResetLink(token) == "http://localhost:8081/reset-password?token=" \o token

\* sendPasswordResetEmail(to, resetToken, firstName): its result, given
\* whether a mail transport is configured, NODE_ENV and whether sendMail
\* resolves
sendPasswordResetEmail(configured, mode, sent, token) ==
  IF ~configured
  THEN IF mode = "development"
       THEN [NoEmailResult EXCEPT !.success = TRUE, !.resetLink = ResetLink(token)]
       ELSE [NoEmailResult EXCEPT !.error = "Email service not configured"]
  ELSE IF sent
       THEN [NoEmailResult EXCEPT !.success = TRUE]
       ELSE [NoEmailResult EXCEPT !.error = "connect ECONNREFUSED 127.0.0.1:587"]

\* the answer that does not tell whether the account exists
GenericAnswer ==
  [NoResp EXCEPT !.status = 200, !.success = TRUE,
                 !.message = "If an account with that email exists, a password reset link has been sent."]

\* POST /auth/password/reset-request: requestPasswordReset up to db.getUserByEmail
RequestStart(r) ==
  /\ pc[r] = "idle"
  /\ \E email \in Emails \cup {""} :
       /\ inp' = [inp EXCEPT ![r] =
                    [NoInp EXCEPT !.route = "requestPasswordReset", !.email = email]]
       /\ IF email = ""
          THEN Throw(r, loc[r], <<>>, ValidationError("Email is required"))
          ELSE Step(r, "findUser", loc[r], <<"getUserByEmail">>)
  /\ UNCHANGED <<tmpfs, now, resumes>>

\* db.getUserByEmail answers: the token is drawn, createPasswordResetToken
\* sends its UPDATE
FindUserDone(r) ==
  /\ pc[r] = "findUser"
  /\ r \notin silent
  /\ \E dbOk \in BOOLEAN, token \in TokenNames :
       LET user == UserByEmail(inp[r].email)
       IN IF ~dbOk \/ user = Absent
          THEN Respond(r, loc[r], <<"respond">>, GenericAnswer)
          ELSE Step(r, "invalidate",
                    [loc[r] EXCEPT !.user = user, !.newToken = token,
                                   !.expiresAt = now + TokenLifetime],
                    <<"invalidateTokens">>)
  /\ UNCHANGED <<inp, tmpfs, now, resumes>>

\* UPDATE password_reset_tokens SET used = TRUE WHERE user_id = $1 AND used = FALSE
InvalidateTokens(tokens, user) ==
  [i \in DOMAIN tokens |->
     IF tokens[i].user_id = user /\ ~tokens[i].used
     THEN [tokens[i] EXCEPT !.used = TRUE]
     ELSE tokens[i]]

\* the UPDATE of createPasswordResetToken answers: the INSERT is sent
InvalidateDone(r) ==
  /\ pc[r] = "invalidate"
  /\ r \notin silent
  /\ \E ok \in BOOLEAN :
       IF ok
       THEN /\ store' = [store EXCEPT !.tokens = InvalidateTokens(@, loc[r].user)]
            /\ Move(r, "insertToken", loc[r], <<"insertToken">>)
       ELSE Throw(r, loc[r], <<>>, Err("Failed to create password reset token"))
  /\ UNCHANGED <<inp, tmpfs, now, resumes>>

\* the INSERT of createPasswordResetToken answers; token is UNIQUE
InsertTokenDone(r) ==
  /\ pc[r] = "insertToken"
  /\ r \notin silent
  /\ \E ok \in BOOLEAN :
       IF ok /\ \A i \in DOMAIN store.tokens : store.tokens[i].token # loc[r].newToken
       THEN /\ store' = [store EXCEPT !.tokens =
                           Append(@, TokenRow(loc[r].newToken, loc[r].user, FALSE,
                                              loc[r].expiresAt, now))]
            /\ Move(r, "sendEmail", loc[r], <<"sendEmail">>)
       ELSE Throw(r, loc[r], <<>>, Err("Failed to create password reset token"))
  /\ UNCHANGED <<inp, tmpfs, now, resumes>>

\* sendPasswordResetEmail answers: the response is sent
SendEmailDone(r) ==
  /\ pc[r] = "sendEmail"
  /\ \E configured \in BOOLEAN, mode \in {"development", "production"},
        sent \in BOOLEAN :
       LET emailResult == sendPasswordResetEmail(configured, mode, sent, loc[r].newToken)
       IN IF ~emailResult.success /\ mode = "development" /\ emailResult.resetLink # ""
          THEN Respond(r, loc[r], <<"respond">>,
                       [GenericAnswer EXCEPT !.resetLink = emailResult.resetLink])
          ELSE Respond(r, loc[r], <<"respond">>, GenericAnswer)
  /\ UNCHANGED <<inp, tmpfs, now, resumes>>

\* ------------------------------------------------------- resetPassword
\* POST /auth/password/reset: resetPassword up to db.getPasswordResetToken
ResetStart(r) ==
  /\ pc[r] = "idle"
  /\ \E token \in TokenNames \cup {""}, password \in Passwords :
       /\ inp' = [inp EXCEPT ![r] =
                    [NoInp EXCEPT !.route = "resetPassword", !.resetToken = token,
                                  !.newPassword = password]]
       /\ IF token = "" \/ password = <<>>
          THEN Throw(r, loc[r], <<>>,
                     ValidationError("Reset token and new password are required"))
          ELSE IF TextLen(password) < MinPasswordLength
          THEN Throw(r, loc[r], <<>>,
                     ValidationError("Password must be at least 6 characters long"))
          ELSE Step(r, "getToken", loc[r], <<"getPasswordResetToken">>)
  /\ UNCHANGED <<tmpfs, now, resumes>>

\* the SELECT without its conditions on used and expires_at
MatchingTokensAnyState(tokens, token, time) ==
  {i \in DOMAIN tokens : tokens[i].token = token}

\* the rows the SELECT of getPasswordResetToken matches at time:
\* token = $1 AND used = FALSE AND expires_at > NOW()
MatchingTokens(tokens, token, time) ==
  {i \in DOMAIN tokens :
     tokens[i].token = token /\ ~tokens[i].used /\ tokens[i].expires_at > time}

\* ORDER BY created_at DESC LIMIT 1
Latest(tokens, rows) ==
  tokens[CHOOSE i \in rows :
           \A j \in rows : tokens[j].created_at <= tokens[i].created_at]

\* db.getPasswordResetToken answers: the row is checked, the user is read
GetTokenDone(r) ==
  /\ pc[r] = "getToken"
  /\ r \notin silent
  /\ \E dbOk \in BOOLEAN :
       LET rows == MatchingTokens(store.tokens, inp[r].resetToken, now)
       IN IF ~dbOk \/ rows = {}
          THEN Throw(r, loc[r], <<>>, ValidationError("Invalid or expired reset token"))
          ELSE LET row == Latest(store.tokens, rows)
               IN IF row.expires_at < now
                  THEN Throw(r, loc[r], <<>>, ValidationError("Reset token has expired"))
                  ELSE Step(r, "getUser",
                            [loc[r] EXCEPT !.tokenRow = row, !.user = row.user_id],
                            <<"getUserByEmail">>)
  /\ UNCHANGED <<inp, tmpfs, now, resumes>>

\* db.getUserByEmail(tokenData.email, true) answers: bcrypt.hash is called
GetUserDone(r) ==
  /\ pc[r] = "getUser"
  /\ r \notin silent
  /\ \E ok \in BOOLEAN :
       IF ~ok
       THEN Throw(r, loc[r], <<>>, ValidationError("User not found"))
       ELSE Step(r, "hash", loc[r], <<"hash">>)
  /\ UNCHANGED <<inp, tmpfs, now, resumes>>

\* bcrypt.hash answers: db.updateUser is called
HashDone(r) ==
  /\ pc[r] = "hash"
  /\ Step(r, "updateUser", [loc[r] EXCEPT !.hashed = Hash(inp[r].newPassword)],
          <<"updateUser">>)
  /\ UNCHANGED <<inp, tmpfs, now, resumes>>

\* db.updateUser answers: db.markPasswordResetTokenAsUsed is called
UpdateUserDone(r) ==
  /\ pc[r] = "updateUser"
  /\ r \notin silent
  /\ \E ok \in BOOLEAN :
       IF ok
       THEN /\ store' = [store EXCEPT !.hash = loc[r].hashed]
            /\ Move(r, "markUsed", loc[r], <<"passwordUpdated", "markTokenUsed">>)
       ELSE Throw(r, loc[r], <<>>, Err("connection terminated unexpectedly"))
  /\ UNCHANGED <<inp, tmpfs, now, resumes>>

\* UPDATE password_reset_tokens SET used = TRUE WHERE token = $1
MarkTokenUsed(tokens, token) ==
  [i \in DOMAIN tokens |->
     IF tokens[i].token = token THEN [tokens[i] EXCEPT !.used = TRUE] ELSE tokens[i]]

\* db.markPasswordResetTokenAsUsed answers, its result is not read: the
\* response is sent
MarkUsedDone(r) ==
  /\ pc[r] = "markUsed"
  /\ r \notin silent
  /\ \E ok \in BOOLEAN :
       /\ store' = IF ok
                   THEN [store EXCEPT !.tokens = MarkTokenUsed(@, inp[r].resetToken)]
                   ELSE store
       /\ Answer(r, loc[r], <<"respond">>,
                 [NoResp EXCEPT !.status = 200, !.success = TRUE,
                                !.message = "Password has been reset successfully. You can now log in with your new password.",
                                !.email = RegisteredEmail])
  /\ UNCHANGED <<inp, tmpfs, now, resumes>>

\* the password_reset_tokens tables the runs start from: empty, or holding
\* one token of the account: valid for an hour, used, or expired
InitialTokens ==
  { <<>>,
    <<TokenRow("t1", "u1", FALSE, TokenLifetime, 0)>>,
    <<TokenRow("t1", "u1", TRUE, TokenLifetime, 0)>>,
    <<TokenRow("t1", "u1", FALSE, 0, 0 - TokenLifetime)>> }

InitAuth ==
  /\ InitRequests
  /\ \E tokens \in InitialTokens : store = [FreshStore EXCEPT !.tokens = tokens]

\* two requests to the password routes, resuming in any order
NextAuth ==
  \/ Tick
  \/ \E r \in Reqs : RequestStart(r)
  \/ \E r \in Reqs : FindUserDone(r)
  \/ \E r \in Reqs : InvalidateDone(r)
  \/ \E r \in Reqs : InsertTokenDone(r)
  \/ \E r \in Reqs : SendEmailDone(r)
  \/ \E r \in Reqs : ResetStart(r)
  \/ \E r \in Reqs : GetTokenDone(r)
  \/ \E r \in Reqs : GetUserDone(r)
  \/ \E r \in Reqs : HashDone(r)
  \/ \E r \in Reqs : UpdateUserDone(r)
  \/ \E r \in Reqs : MarkUsedDone(r)

SpecAuth == InitAuth /\ [][NextAuth]_vars

\* ---------------------------------------------------------- deleteFile
\* the two copies of deleteFile in the repository: the one that deletes the
\* file record and the one that answers without deleting it
Copies == {"part_007", "fileController.js"}

\* DELETE /files/:id: deleteFile up to db.getFileById
DeleteStart(r) ==
  /\ pc[r] = "idle"
  /\ \E userId \in Users \cup {Absent}, fileId \in FileIds \cup {Absent} :
       /\ inp' = [inp EXCEPT ![r] =
                    [NoInp EXCEPT !.route = "deleteFile", !.userId = userId,
                                  !.fileId = fileId]]
       /\ IF userId = Absent
          THEN Throw(r, loc[r], <<>>, ValidationError("User not authenticated"))
          ELSE IF fileId = Absent
          THEN Throw(r, loc[r], <<>>, ValidationError("File ID is required"))
          ELSE Step(r, "delGetFile", loc[r], <<"getFileById">>)
  /\ UNCHANGED <<tmpfs, now, resumes>>

\* SELECT * FROM files WHERE id = $1
FileRowsById(files, id) == {f \in files : f.id = id}

\* db.getFileById answers: the owner is checked, storage.deleteFile is called
DelGetFileDone(r) ==
  /\ pc[r] = "delGetFile"
  /\ \E dbOk \in BOOLEAN :
       LET rows == FileRowsById(store.files, inp[r].fileId)
       IN IF ~dbOk \/ rows = {}
          THEN Throw(r, loc[r], <<>>, ValidationError("File not found"))
          ELSE LET row == CHOOSE f \in rows : TRUE
               IN IF row.user_id # inp[r].userId
                  THEN Throw(r, loc[r], <<>>, ValidationError("Access denied"))
                  ELSE Step(r, "delStorage",
                            [loc[r] EXCEPT !.fileRec = [NoFile EXCEPT !.id = row.id,
                                                                     !.user_id = row.user_id,
                                                                     !.hasPath = TRUE]],
                            <<"storageDelete">>)
  /\ UNCHANGED <<inp, tmpfs, now, resumes>>

\* storage.deleteFile answers; a failure is logged as a warning. One copy
\* then calls db.deleteFileById, the other sends the response
DelStorageDone(r) ==
  /\ pc[r] = "delStorage"
  /\ \E ok \in BOOLEAN, copy \in Copies :
       LET l == [loc[r] EXCEPT !.storageDeleted = ok]
       IN /\ store' = IF ok THEN [store EXCEPT !.blobs = @ \ {inp[r].fileId}]
                             ELSE store
          /\ IF copy = "part_007"
             THEN Move(r, "delRecord", l, <<"deleteFileById">>)
             ELSE Answer(r, l, <<"respond">>,
                         [NoResp EXCEPT !.status = 200, !.success = TRUE,
                                        !.message = "File deleted successfully",
                                        !.fileId = inp[r].fileId])
  /\ UNCHANGED <<inp, tmpfs, now, resumes>>

\* db.deleteFileById answers: no row deleted is a failure
DelRecordDone(r) ==
  /\ pc[r] = "delRecord"
  /\ \E ok \in BOOLEAN :
       IF ok /\ FileRowsById(store.files, inp[r].fileId) # {}
       THEN /\ store' = [store EXCEPT
                          !.files = @ \ FileRowsById(@, inp[r].fileId)]
            /\ Answer(r, loc[r], <<"respond">>,
                      [NoResp EXCEPT !.status = 200, !.success = TRUE,
                                     !.message = "File deleted successfully",
                                     !.fileId = inp[r].fileId])
       ELSE Throw(r, loc[r], <<>>, Err("Failed to delete file record: File not found"))
  /\ UNCHANGED <<inp, tmpfs, now, resumes>>

\* two requests to DELETE /files/:id, resuming in any order
NextFiles ==
  \/ \E r \in Reqs : DeleteStart(r)
  \/ \E r \in Reqs : DelGetFileDone(r)
  \/ \E r \in Reqs : DelStorageDone(r)
  \/ \E r \in Reqs : DelRecordDone(r)

SpecFiles == Init /\ [][NextFiles]_vars

\* ------------------------------------- a silent collaborator, a lost client
\* the awaits of calls made without a timeout: the supabase queries and the
\* axios.post of generateContent; axios.get is given timeout: 10000
NoTimeoutCalls == {"getFile", "download", "model", "createResume"}

\* the collaborator of the pending call of r never answers
GoSilent(r) ==
  /\ pc[r] \in NoTimeoutCalls
  /\ r \notin silent
  /\ silent' = silent \cup {r}
  /\ UNCHANGED <<pc, inp, loc, trace, err, resp, tmpfs, now, resumes, closedAt, store>>

\* the client of r closes the connection while r is suspended; no handler
\* listens for it
Disconnect(r) ==
  /\ pc[r] \notin {"idle", "done"}
  /\ closedAt[r] = -1
  /\ closedAt' = [closedAt EXCEPT ![r] = Len(trace[r])]
  /\ UNCHANGED <<pc, inp, loc, trace, err, resp, tmpfs, now, resumes, silent, store>>

\* the continuation of r after the await it is suspended at
Resume(r) ==
  \/ GetFileDone(r) \/ DownloadDone(r) \/ PdfBlobDone(r) \/ PdfParseDone(r)
  \/ MammothDone(r) \/ ParseModelDone(r) \/ CreateResumeDone(r)
  \/ RenderDone(r) \/ FetchDone(r) \/ AnalyzeModelDone(r)
  \/ ExtractDone(r) \/ GenerateModelDone(r)

NextEnv ==
  \/ Next
  \/ GoSilent(1)
  \/ Disconnect(1)

\* the event loop runs the continuation of every promise that settles
SpecEnv == Init /\ [][NextEnv]_vars /\ WF_vars(Resume(1))

\* ------------------------------------------- two requests side by side
\* the scenario of the concurrent runs: two users' uploads of a PDF or a text
\* file are parsed; texts at the minimum length, the model answering a JSON
\* record or nothing usable
ConcTexts == {Plain(MinContentLength), Padded(MinContentLength, MaxPad)}
ConcApis == {NoApi, ApiNoChoices, ApiContent(GoodResumeJson)}
ConcScenario ==
  \A r \in Reqs :
    /\ inp[r].route \in {"", "parseResume"}
    /\ inp[r].userId \in {Absent, "u1"}
    /\ inp[r].fileId \in {Absent} \cup FileIds
    /\ loc[r].fileRec # NoFile =>
         /\ loc[r].fileRec.user_id = "u1" /\ loc[r].fileRec.hasPath
         /\ loc[r].fileRec.filename \in {<<"cv", "pdf">>, <<"notes", "txt">>}
    /\ loc[r].blob # NoBlob => loc[r].blob.text \in ConcTexts
    /\ loc[r].api \in ConcApis

\* both requests are served, suspended requests resuming in any order
NextConc ==
  \/ Tick /\ ConcScenario'
  \/ \E r \in Reqs : ParseStart(r) /\ ConcScenario'
  \/ \E r \in Reqs : GetFileDone(r) /\ ConcScenario'
  \/ \E r \in Reqs : DownloadDone(r) /\ ConcScenario'
  \/ \E r \in Reqs : PdfBlobDone(r) /\ ConcScenario'
  \/ \E r \in Reqs : PdfParseDone(r) /\ ConcScenario'
  \/ \E r \in Reqs : ParseModelDone(r) /\ ConcScenario'
  \/ \E r \in Reqs : CreateResumeDone(r) /\ ConcScenario'

SpecConc == Init /\ [][NextConc]_vars

\* =================================================================== claims
Has(r, ev) == \E i \in 1..Len(trace[r]) : trace[r][i] = ev
Count(r, ev) == Cardinality({i \in 1..Len(trace[r]) : trace[r][i] = ev})
PersistedBy(r) == {i \in 1..Len(resumes) : resumes[i].by = r}
Finished(r) == pc[r] = "done"
IsParse(r) == inp[r].route = "parseResume"
IsAnalyze(r) == inp[r].route = "analyzeJob"
IsGenerate(r) == inp[r].route = "generateResume"

\* the calls that extract text, touch the temp directory or come after
ExtractionEvents ==
  {"arrayBuffer", "tempWrite", "tempRead", "pdfParse", "tempUnlink", "mammoth", "utf8"}

\* the file record of r was found and belongs to another user
ForeignFile(r) ==
  /\ IsParse(r)
  /\ loc[r].fileRec # NoFile
  /\ loc[r].fileRec.user_id # inp[r].userId

\* C1: in parseResume, when the owner of the file record differs from the
\* requesting user the request ends in the ValidationError "Access denied"
\* (answered 400), and no download, extraction, temp file, model call or
\* resume row happens in that request.
C1_AccessDenied ==
  \A r \in Reqs :
    ForeignFile(r) =>
      /\ Finished(r)
      /\ err[r] = ValidationError("Access denied")
      /\ resp[r].status = 400 /\ ~resp[r].success
      /\ trace[r] = <<"getFileById">>
      /\ PersistedBy(r) = {}
      /\ tmpfs = {}

C1_Witness == \E r \in Reqs : ForeignFile(r) /\ Finished(r)

\* the length of a text once whitespace is collapsed and trimmed, counted
\* from the runs: the letters, and one for every gap between letters
LettersLen(t) ==
  LET RECURSIVE Sum(_)
      Sum(i) == IF i > Len(t) THEN 0
                ELSE (IF IsWs(t[i].ch) THEN 0 ELSE t[i].n) + Sum(i + 1)
  IN Sum(1)
Gaps(t) ==
  Cardinality({i \in 1..Len(t) :
                 /\ IsWs(t[i].ch)
                 /\ i > 1 /\ ~IsWs(t[i - 1].ch)
                 /\ \E k \in (i + 1)..Len(t) : ~IsWs(t[k].ch)})
CleanLen(t) == LettersLen(t) + Gaps(t)

\* the extension table of the sampled file names
ExpectedKind(filename) ==
  CASE filename \in {<<"cv", "pdf">>, <<"cv", "PDF">>} -> "pdf"
    [] filename = <<"cv", "docx">> -> "docx"
    [] filename = <<"cv", "Doc">> -> "doc"
    [] filename = <<"notes", "txt">> -> "txt"
    [] OTHER -> "unsupported"

\* every stage before the persistence of r has succeeded
StagesSucceeded(r) ==
  /\ inp[r].userId \in Users /\ inp[r].fileId \in FileIds
  /\ loc[r].fileRec.id = inp[r].fileId
  /\ loc[r].fileRec.user_id = inp[r].userId
  /\ loc[r].fileRec.hasPath
  /\ loc[r].bufKind \in {"Buffer", "Blob"}
  /\ ExpectedKind(loc[r].fileRec.filename) # "unsupported"
  /\ loc[r].extracted
  /\ CleanLen(loc[r].rawText) >= MinContentLength
  /\ loc[r].api.kind = "content"
  /\ Count(r, "download") = 1 /\ Count(r, "model") = 1

\* C2: in parseResume, a failure of any stage stops the pipeline and no resume
\* is persisted: db.createResume is called only in a run whose ownership
\* check, download, extraction, minimum-content check and normalization all
\* succeeded, and a request that answered a failure has inserted no row.
C2_NoPersistOnFailure ==
  \A r \in Reqs :
    IsParse(r) =>
      /\ Has(r, "createResume") => StagesSucceeded(r)
      /\ PersistedBy(r) # {} => (StagesSucceeded(r) /\ err[r] = NoErr)
      /\ err[r] # NoErr => (Finished(r) /\ ~resp[r].success /\ PersistedBy(r) = {})

C2_Witness ==
  \E r \in Reqs :
    /\ IsParse(r) /\ Finished(r) /\ err[r] # NoErr
    /\ loc[r].extracted /\ ~Has(r, "createResume")

\* the text-generation call of r failed at transport level
TransportFailed(r) == loc[r].api.kind \in {"throw", "malformed"}

\* C3: normalization never fails outward: when the text-generation call of a
\* document ingestion fails at transport level (timeout, non-2xx, malformed
\* envelope), the ingestion goes on with the degraded record of the extracted
\* text and does not end in a failure.
C3_ModelFailureAbsorbed ==
  \A r \in Reqs :
    (IsParse(r) /\ TransportFailed(r)) =>
      /\ err[r] = NoErr
      /\ Has(r, "createResume")
      /\ loc[r].parsedContent = DegradedRecord(loc[r].extractedText)

\* the content the model returned for r is no JSON
Unparseable(r) ==
  /\ IsParse(r)
  /\ loc[r].api.kind = "content"
  /\ ~JSONParse(loc[r].api.content).ok

\* C4: when the response text of the model is not parseable, normalization
\* returns, without throwing, a record whose extractedText is the input text
\* and whose contact, experience, education and skills are empty; the
\* ingestion goes on to persist it.
C4_DegradedOnParseFailure ==
  \A r \in Reqs :
    Unparseable(r) =>
      LET rec == loc[r].parsedContent
          sections == Get(rec, Word("sections"))
      IN /\ Has(r, "createResume")
         /\ err[r] # NoErr => Count(r, "respond") = 0 /\ PersistedBy(r) = {}
         /\ Get(rec, Word("extractedText")) = JStr(loc[r].extractedText)
         /\ loc[r].extractedText = CleanText(loc[r].rawText)
         /\ Get(sections, Word("contact")) = JObj(<<>>, <<>>)
         /\ Get(sections, Word("experience")) = JArr(<<>>)
         /\ Get(sections, Word("education")) = JArr(<<>>)
         /\ Get(sections, Word("skills")) = JArr(<<>>)

C4_Witness ==
  \E r \in Reqs :
    /\ Unparseable(r) /\ Finished(r) /\ resp[r].success
    /\ resp[r].parsedContent = DegradedRecord(loc[r].extractedText)

\* C5: the extracted text is whitespace-collapsed and trimmed before the
\* length check: a text of fewer than 50 characters after the clean-up (the
\* empty text too) fails the extraction, with no model call and no resume
\* row; a text of 50 characters or more passes and is handed, cleaned, to
\* the model.
C5_MinimumContent ==
  \A r \in Reqs :
    /\ (IsParse(r) /\ Has(r, "tempUnlink") /\ loc[r].parsedBlob.text = <<>>) =>
         (Finished(r) /\ err[r] # NoErr /\ ~Has(r, "model") /\ PersistedBy(r) = {})
    /\ (IsParse(r) /\ loc[r].extracted) =>
      IF CleanLen(loc[r].rawText) < MinContentLength
      THEN /\ Finished(r)
           /\ err[r] = Err("Failed to extract text from file: Could not extract meaningful text from the file")
           /\ ~Has(r, "model") /\ ~Has(r, "createResume")
           /\ PersistedBy(r) = {}
      ELSE /\ Has(r, "model")
           /\ IsClean(loc[r].extractedText)
           /\ TextLen(loc[r].extractedText) = CleanLen(loc[r].rawText)

\* a text long enough as extracted and too short once cleaned was refused
C5_Witness ==
  \E r \in Reqs :
    /\ IsParse(r) /\ loc[r].extracted /\ Finished(r)
    /\ TextLen(loc[r].rawText) >= MinContentLength
    /\ CleanLen(loc[r].rawText) = MinContentLength - 1
    /\ ~Has(r, "model")

\* the download of r delivered a buffer
Downloaded(r) == IsParse(r) /\ loc[r].bufKind \in {"Buffer", "Blob"}

\* the first call of the extractor of each supported kind
FirstCalls(kind, bufKind) ==
  CASE kind = "pdf" -> IF bufKind = "Blob" THEN "arrayBuffer" ELSE "tempWrite"
    [] kind \in {"docx", "doc"} -> "mammoth"
    [] OTHER -> "utf8"

\* C6: extraction dispatches on the lower-cased extension of the file name
\* over exactly .pdf, .docx, .doc and .txt; for any other extension the
\* extraction fails with an unsupported-file-type error, no extractor is
\* invoked and no temp file is created.
C6_ExtensionDispatch ==
  \A r \in Reqs :
    Downloaded(r) =>
      LET kind == ExpectedKind(loc[r].fileRec.filename)
      IN IF kind = "unsupported"
         THEN /\ Finished(r)
              /\ err[r].name = "Error"
              /\ \E ext \in {"", ".rtf", ".exe"} :
                   err[r].message
                     = "Failed to extract text from file: Unsupported file type: " \o ext
              /\ \A ev \in ExtractionEvents : ~Has(r, ev)
              /\ trace[r] = <<"getFileById", "download">>
              /\ tmpfs = {}
         ELSE /\ Len(trace[r]) >= 3
              /\ trace[r][3] = FirstCalls(kind, loc[r].bufKind)
              /\ kind # "pdf" => (tmpfs = {} /\ ~Has(r, "tempWrite"))

C6_Witness ==
  \E r \in Reqs :
    /\ Downloaded(r) /\ Finished(r)
    /\ ExpectedKind(loc[r].fileRec.filename) = "unsupported"

\* the request body of r carries both a job URL and a job text
BothInputs(r) == IsAnalyze(r) /\ inp[r].hasUrl /\ inp[r].hasText
\* the request body of r carries neither
NeitherInput(r) == IsAnalyze(r) /\ ~inp[r].hasUrl /\ ~inp[r].hasText
\* the request body of r passes validateJobAnalysis
ValidBody(r) ==
  /\ inp[r].hasUrl => inp[r].jobUrl \in ValidUrls
  /\ inp[r].hasText => /\ TextLen(inp[r].jobText) >= JobTextMin
                       /\ TextLen(inp[r].jobText) <= JobTextMax

\* C7 as stated: analyzeJob takes exactly one of url and text; a request
\* with both a job URL and a job text is rejected with a ValidationError and
\* neither acquisition nor the model call is performed.
C7_BothRejected ==
  \A r \in Reqs :
    BothInputs(r) =>
      /\ Finished(r)
      /\ err[r].name = "ValidationError"
      /\ trace[r] = <<>>

\* C7 amended: analyzeJob refuses only a request with neither input; a
\* request with both a valid job URL and a valid job text is accepted: the
\* content is acquired from the URL, renderer first, and the pasted text is
\* never what the model is called with.  With both inputs the request is
\* rejected (400, nothing called) exactly when a field fails validation.
C7_BothAccepted ==
  \A r \in Reqs :
    BothInputs(r) =>
      IF ValidBody(r)
      THEN /\ Len(trace[r]) >= 1 /\ trace[r][1] = "render"
           /\ err[r].message # "Either job URL or job text is required"
           /\ Has(r, "model") =>
                /\ loc[r].primary = "ok" \/ loc[r].fallback = "ok"
                /\ loc[r].fallback = "ok" =>
                     loc[r].jobContent = Truncate(CleanText(loc[r].page.body))
      ELSE /\ Finished(r) /\ err[r] = ValidationFailed
           /\ resp[r].status = 400 /\ trace[r] = <<>>

C7_Witness ==
  \E r \in Reqs :
    /\ BothInputs(r) /\ ValidBody(r) /\ Finished(r) /\ resp[r].success
    /\ loc[r].jobContent # inp[r].jobText

\* C8: with neither a URL nor a text, analyzeJob fails with a
\* ValidationError before any network call: no renderer navigation, no HTTP
\* fetch and no text-generation call occurs in the request.
C8_NeitherRejected ==
  \A r \in Reqs :
    NeitherInput(r) =>
      /\ Finished(r)
      /\ err[r] = ValidationError("Either job URL or job text is required")
      /\ resp[r].status = 400 /\ ~resp[r].success
      /\ trace[r] = <<>>

C8_Witness == \E r \in Reqs : NeitherInput(r) /\ Finished(r)

\* C9: in the URL acquisition of analyzeJob the fallback fetch is attempted
\* if and only if the rendering strategy raised an error, and when the
\* primary fails and the fallback succeeds the acquisition succeeds with the
\* content of the fallback and the request goes on to the analysis.
C9_FallbackOnPrimaryFailure ==
  \A r \in Reqs :
    IsAnalyze(r) =>
      /\ Has(r, "fetch") <=> loc[r].primary = "failed"
      /\ Count(r, "fetch") <= 1
      /\ loc[r].primary = "failed" =>
           /\ Has(r, "render")
           /\ pc[r] = "fetch" <=> loc[r].fallback = ""
      /\ (loc[r].primary = "failed" /\ loc[r].fallback = "ok") =>
           /\ Has(r, "model")
           /\ loc[r].jobContent = Truncate(CleanText(loc[r].page.body))
           /\ err[r].name # "ValidationError"

C9_Witness ==
  \E r \in Reqs :
    /\ IsAnalyze(r) /\ loc[r].primary = "failed" /\ loc[r].fallback = "ok"
    /\ Finished(r) /\ resp[r].success

\* entry i of jobSelectors selects more than the threshold in page
Qualifies(page, i) ==
  page.sel[i].present /\ TextLen(Trim(page.sel[i].text)) > SelectorThreshold
SomeQualifies(page) == \E i \in 1..NumSelectors : Qualifies(page, i)
FirstQualifying(page) ==
  CHOOSE i \in 1..NumSelectors :
    Qualifies(page, i) /\ \A j \in 1..(i - 1) : ~Qualifies(page, j)

\* the primary strategy of r failed and the fallback fetched a page
ViaFallback(r) ==
  IsAnalyze(r) /\ loc[r].primary = "failed" /\ loc[r].fallback = "ok"

\* C10 as stated: when the primary strategy fails and the fallback returns a
\* page, the acquired text is the text of the first selector of the priority
\* list whose text exceeds 200 characters, and the whole-body text only if no
\* selector qualifies.
C10_SelectorTextWins ==
  \A r \in Reqs :
    ViaFallback(r) =>
      IF SomeQualifies(loc[r].page)
      THEN LET text == loc[r].page.sel[FirstQualifying(loc[r].page)].text
           IN loc[r].jobContent \in {Trim(text), CleanText(text), Truncate(CleanText(text))}
      ELSE loc[r].jobContent = Truncate(CleanText(loc[r].page.body))

\* C10 amended: when the primary strategy fails and the fallback returns a
\* page, analyzeJob acquires the whole-body text (collapsed, trimmed, cut to
\* 10,000 characters) whatever the selectors select.  The selector list is
\* used by extractJobFromUrl only (resume generation from a URL, no primary
\* strategy): there the trimmed text of the first selector selecting more
\* than 200 characters is the content, and the whole-body text only if no
\* selector qualifies.
C10_WholeBodyInAnalyzeJob ==
  \A r \in Reqs :
    /\ ViaFallback(r) =>
         loc[r].jobContent = Truncate(CleanText(loc[r].page.body))
    /\ (IsGenerate(r) /\ loc[r].fallback = "ok") =>
         IF SomeQualifies(loc[r].page)
         THEN loc[r].jobContent
                = Trim(loc[r].page.sel[FirstQualifying(loc[r].page)].text)
         ELSE loc[r].jobContent = CleanText(loc[r].page.body)

C10_Witness ==
  \E r \in Reqs :
    /\ ViaFallback(r) /\ SomeQualifies(loc[r].page) /\ Has(r, "model")
    /\ loc[r].jobContent
         # Trim(loc[r].page.sel[FirstQualifying(loc[r].page)].text)

\* the content of r was acquired from a URL and handed to the model
UrlAcquired(r) ==
  /\ Has(r, "model")
  /\ \/ IsAnalyze(r) /\ (loc[r].primary = "ok" \/ loc[r].fallback = "ok")
     \/ IsGenerate(r) /\ loc[r].fallback = "ok"

\* C11 as stated: every text acquired from a URL, by the fallback of
\* analyzeJob or by extractJobFromUrl (whole body or selector match), is
\* whitespace-collapsed, trimmed and at most 10,000 characters long when it
\* is handed to the text-generation call.
C11_UrlTextCleanAndCapped ==
  \A r \in Reqs :
    UrlAcquired(r) =>
      /\ IsClean(loc[r].jobContent)
      /\ TextLen(loc[r].jobContent) <= MaxContentLength

\* both strategies of r were tried and both threw
BothFailed(r) ==
  IsAnalyze(r) /\ loc[r].primary = "failed" /\ loc[r].fallback = "failed"

\* the messages an error built around cause can have, cause included
CarryingMessages(cause) ==
  {cause, "Failed to extract content from the provided URL: " \o cause}

\* C12 as stated: if both the rendering strategy and the fallback fetch fail,
\* acquisition fails with an error that carries the underlying cause, no
\* content is passed on and the text-generation call is never made.
C12_CauseCarried ==
  \A r \in Reqs :
    BothFailed(r) =>
      /\ Finished(r) /\ err[r] # NoErr
      /\ \/ err[r].message \in CarryingMessages(loc[r].fallbackError)
         \/ err[r].message \in CarryingMessages(loc[r].primaryError)
      /\ ~Has(r, "model")
      /\ resp[r].analysis = <<>> /\ resp[r].originalContent = <<>>

\* C12 amended: if both strategies fail, analyzeJob throws a ValidationError
\* whose message is the fixed text 'Failed to extract content from the
\* provided URL' and whose details are empty: the causes of the two failures
\* are written to the log only, neither is carried by the error or by the
\* 400 response.  No content is passed on and the text-generation call is
\* never made.
C12_FixedMessageNoModel ==
  \A r \in Reqs :
    BothFailed(r) =>
      /\ Finished(r)
      /\ err[r] = ValidationError("Failed to extract content from the provided URL")
      /\ loc[r].primaryError \in LoadErrors /\ loc[r].fallbackError \in LoadErrors
      /\ resp[r].status = 400 /\ ~resp[r].success /\ resp[r].details = FALSE
      /\ resp[r].message \notin CarryingMessages(loc[r].fallbackError)
      /\ ~Has(r, "model")
      /\ resp[r].analysis = <<>> /\ resp[r].originalContent = <<>>

C12_Witness ==
  \E r \in Reqs :
    /\ BothFailed(r) /\ Finished(r)
    /\ Count(r, "render") = 1 /\ Count(r, "fetch") = 1
    /\ loc[r].primaryError # loc[r].fallbackError

\* the files of the temp directory under the temp file name of r
TempFilesOf(r) == {f \in tmpfs : f[1] = loc[r].tempFile}

InPdfExtraction(r) == pc[r] \in {"pdfBlob", "pdfParse"}

\* C14 as stated: any two PDF extractions in flight at the same time use
\* different temp file names.
C14_DistinctTempNames ==
  \A r1 \in Reqs, r2 \in Reqs :
    (r1 # r2 /\ InPdfExtraction(r1) /\ InPdfExtraction(r2)) =>
      loc[r1].tempFile # loc[r2].tempFile

\* what request r alone holds: its position, inputs, locals, calls, outcome
Local(r) == <<pc[r], inp[r], loc[r], trace[r], err[r], resp[r]>>
RowsBy(r) == {resumes[i] : i \in PersistedBy(r)}

\* the text the extractor of r returns for the bytes of its own document
OwnText(r) ==
  IF ExpectedKind(loc[r].fileRec.filename) = "txt" /\ loc[r].bufKind = "Blob"
  THEN ObjectBlobText
  ELSE loc[r].blob.text

\* every result of r is the one its own document and its own answers give
OwnResults(r) ==
  /\ loc[r].blob # NoBlob => loc[r].blob.doc = inp[r].fileId
  /\ Has(r, "pdfParse") => loc[r].parsedBlob = loc[r].blob
  /\ loc[r].extracted =>
       /\ loc[r].rawText = OwnText(r)
       /\ loc[r].extractedText = CleanText(OwnText(r))
  /\ Has(r, "createResume") =>
       loc[r].parsedContent = parseResumeAI(CleanText(OwnText(r)), loc[r].api).data
  /\ Cardinality(PersistedBy(r)) = (IF Finished(r) /\ resp[r].success THEN 1 ELSE 0)
  /\ \A i \in PersistedBy(r) :
       /\ resumes[i].user_id = inp[r].userId
       /\ resumes[i].file = inp[r].fileId
       /\ resumes[i].title = loc[r].fileRec.filename
       /\ resumes[i].content = Stringify(loc[r].parsedContent)
       /\ resp[r].parsedContent = loc[r].parsedContent
       /\ resp[r].resumeId = resumes[i].id
  /\ (Finished(r) /\ ~resp[r].success) => resp[r] = errorHandler(err[r])

\* C15: under every interleaving of two document ingestion requests, a step
\* of one request changes nothing the other holds and none of its rows, and
\* the extracted text, the outcome and the persisted record of each request
\* are those of its own document: each PDF extraction parses the bytes of
\* its own document.
C15_NoInterference ==
  /\ [](\A r \in Reqs : OwnResults(r))
  /\ [][ \A r1 \in Reqs, r2 \in Reqs :
           (r1 # r2 /\ Local(r1)' # Local(r1)) =>
             (Local(r2)' = Local(r2) /\ RowsBy(r2)' = RowsBy(r2)) ]_vars

\* two PDF extractions of different documents shared a temp file name and
\* both requests have answered 200
C15_Witness ==
  \E r1 \in Reqs, r2 \in Reqs :
    /\ r1 # r2 /\ Has(r1, "pdfParse") /\ Has(r2, "pdfParse")
    /\ loc[r1].tempFile = loc[r2].tempFile
    /\ loc[r1].blob # loc[r2].blob
    /\ Finished(r1) /\ resp[r1].success /\ Finished(r2) /\ resp[r2].success

\* C16 as stated: a ValidationError raised in the pipeline reaches the caller
\* verbatim: the message of the HTTP response is the message the error was
\* raised with.
C16_ValidationMessageVerbatim ==
  \A r \in Reqs :
    (Finished(r) /\ err[r].name = "ValidationError") =>
      resp[r].message = err[r].message

\* the extraction stage of r failed: the download delivered the document and
\* the request ended in an error before the model was called
ExtractionFailed(r) ==
  /\ IsParse(r) /\ Downloaded(r) /\ Finished(r) /\ err[r] # NoErr
  /\ ~Has(r, "model")

\* C17 as stated: the failure returned to the caller identifies its kind.
\* An unsupported format, an insufficient content and a failure of the
\* extraction library come back with the diagnostic message they were
\* raised with; the response to 'no content supplied' differs from the
\* response to 'could not reach or parse the URL'.
C17_FailureKindIdentified ==
  \A r \in Reqs :
    /\ ExtractionFailed(r) => resp[r].message = err[r].message
    /\ (NeitherInput(r) /\ Finished(r)) =>
         resp[r] # errorHandler(ValidationError("Failed to extract content from the provided URL"))
    /\ (BothFailed(r) /\ Finished(r)) =>
         resp[r] # errorHandler(ValidationError("Either job URL or job text is required"))

\* the calls of the stages: record lookup, storage download, the extractors,
\* the two acquisition strategies, the text-generation call, the insert
StageCalls ==
  {"getFileById", "download", "arrayBuffer", "tempWrite", "pdfParse", "mammoth",
   "utf8", "render", "fetch", "model", "createResume"}

\* C18: no stage is retried: within one request the storage download, each
\* extractor, each acquisition strategy, the text-generation call and the
\* persistence call are each invoked at most once, whatever their outcome.
C18_NoRetry ==
  \A r \in Reqs : \A ev \in StageCalls : Count(r, ev) <= 1

\* a request has ended on a failed text-generation call
C18_Witness ==
  \E r \in Reqs :
    /\ Finished(r) /\ loc[r].api.kind \in {"throw", "malformed"}
    /\ err[r].name = "Error"
    /\ Count(r, "model") = 1

\* C19 as stated: every ingestion request eventually ends with a response;
\* no collaborator that never answers can block it forever.
C19_EventuallyAnswers ==
  \A r \in Reqs : (pc[r] # "idle") ~> (pc[r] = "done" /\ resp[r] # NoResp)

\* C20 as stated: once the client of a request has gone away while a stage
\* was suspended, no later stage runs for that request: after that point the
\* request calls nothing but the unlink of its PDF temp file, and that file
\* is deleted.
C20_NothingAfterCancel ==
  \A r \in Reqs :
    closedAt[r] >= 0 =>
      /\ \A i \in (closedAt[r] + 1)..Len(trace[r]) : trace[r][i] = "tempUnlink"
      /\ Finished(r) => {f \in tmpfs : f[1] = loc[r].tempFile} = {}

\* r is a reset of the password, r asks for a reset token
IsReset(r) == inp[r].route = "resetPassword"
IsResetRequest(r) == inp[r].route = "requestPasswordReset"

\* the unused tokens of a user
UnusedTokens(user) ==
  {i \in DOMAIN store.tokens :
     store.tokens[i].user_id = user /\ ~store.tokens[i].used}

\* r wrote a new password hash
ChangedPassword(r) == IsReset(r) /\ Has(r, "passwordUpdated")

\* C21: a reset token is one-time use: of the resets carrying the same token,
\* in sequence or interleaved, at most one changes the password.
C21_OneTimeUse ==
  \A r1, r2 \in Reqs :
    (r1 # r2 /\ ChangedPassword(r1) /\ ChangedPassword(r2))
      => inp[r1].resetToken # inp[r2].resetToken

\* C22: after any sequence of requestPasswordReset calls for one user, also
\* interleaved ones, the user has at most one unused token.
C22_AtMostOneUnused == Cardinality(UnusedTokens(UserByEmail(RegisteredEmail))) <= 1

\* C23: requestPasswordReset answers a registered and an unregistered email
\* alike, status and body, whatever the token storage, the email sending and
\* the environment mode do.
C23_SameAnswer ==
  \A r1, r2 \in Reqs :
    ( /\ IsResetRequest(r1) /\ Finished(r1) /\ UserByEmail(inp[r1].email) # Absent
      /\ IsResetRequest(r2) /\ Finished(r2) /\ inp[r2].email # ""
      /\ UserByEmail(inp[r2].email) = Absent )
      => resp[r1] = resp[r2]

\* the stage of parseResume a call belongs to
Rank(ev) ==
  CASE ev = "getFileById" -> 1
    [] ev = "download" -> 2
    [] ev \in ExtractionEvents -> 3
    [] ev = "model" -> 4
    [] ev = "createResume" -> 5
    [] ev = "respond" -> 6
    [] OTHER -> 0

\* C24: parseResume runs its stages in the order ownership check, download,
\* extraction, model call, persistence, success response: the calls of a
\* request never go back to an earlier stage, a stage is entered only from the
\* stage before it and only after that one succeeded, and the success
\* response is sent only once the row is inserted.
C24_StageOrder ==
  \A r \in Reqs :
    IsParse(r) =>
      /\ \A i, j \in 1..Len(trace[r]) :
           i < j => Rank(trace[r][i]) <= Rank(trace[r][j])
      /\ \A i \in 1..Len(trace[r]) :
           /\ Rank(trace[r][i]) >= 1
           /\ Rank(trace[r][i]) > 1 =>
                \E j \in 1..(i - 1) : Rank(trace[r][j]) = Rank(trace[r][i]) - 1
      /\ Has(r, "download") =>
           (loc[r].fileRec.id = inp[r].fileId /\ loc[r].fileRec.user_id = inp[r].userId)
      /\ (\E ev \in ExtractionEvents : Has(r, ev)) => loc[r].bufKind \in {"Buffer", "Blob"}
      /\ Has(r, "model") =>
           (loc[r].extracted /\ CleanLen(loc[r].rawText) >= MinContentLength)
      /\ Has(r, "createResume") => loc[r].api.kind = "content"
      /\ (Has(r, "respond") \/ resp[r].success) =>
           (PersistedBy(r) # {} /\ Finished(r) /\ resp[r].success)

\* a request went through all six stages
C24_Witness ==
  \E r \in Reqs :
    /\ IsParse(r) /\ resp[r].success
    /\ \A k \in 1..6 : \E i \in 1..Len(trace[r]) : Rank(trace[r][i]) = k

\* the content the model returned for r is JSON
ParsedJson(r) ==
  /\ IsParse(r)
  /\ loc[r].api.kind = "content"
  /\ JSONParse(loc[r].api.content).ok
  /\ Has(r, "createResume")

\* a JSON value of the declared shape: an object with a sections object
HasShape(v) == HasKey(v, Word("sections")) /\ Get(v, Word("sections")).t = "obj"

\* C25: a response that is valid JSON of the wrong shape (a number, a string,
\* null, an array, an object without sections) is normalized to the degraded
\* record, never handed on as the model's value.
C25_WrongShapeDegraded ==
  \A r \in Reqs :
    (ParsedJson(r) /\ ~HasShape(JSONParse(loc[r].api.content).val))
      => loc[r].parsedContent = DegradedRecord(loc[r].extractedText)

\* C27: no response that parsed as JSON yields the record normalization
\* returns on parse failure, so the record alone tells the two cases apart.
C27_DegradedIsMarked ==
  \A r \in Reqs :
    ParsedJson(r) => loc[r].parsedContent # DegradedRecord(loc[r].extractedText)

\* a is the text of the first TextLen(a) characters of b
RECURSIVE IsPrefix(_, _)
IsPrefix(a, b) ==
  IF a = <<>> THEN TRUE
  ELSE IF b = <<>> \/ Head(a).ch # Head(b).ch THEN FALSE
  ELSE IF Head(a).n = Head(b).n THEN IsPrefix(Tail(a), Tail(b))
  ELSE IF Head(a).n < Head(b).n
       THEN IsPrefix(Tail(a), <<Run(Head(b).ch, Head(b).n - Head(a).n)>> \o Tail(b))
       ELSE IsPrefix(<<Run(Head(a).ch, Head(a).n - Head(b).n)>> \o Tail(a), Tail(b))

\* analyzeJob acquired the content of r from a page
PageAcquired(r) ==
  IsAnalyze(r) /\ (loc[r].primary = "ok" \/ loc[r].fallback = "ok")

\* C26: acquired content longer than 10,000 characters is cut to exactly its
\* first 10,000 characters, content of at most 10,000 characters is left as
\* it is, and cutting the result again changes nothing.
C26_Truncation ==
  \A r \in Reqs :
    PageAcquired(r) =>
      LET full == CleanText(loc[r].page.body)
          cut == loc[r].jobContent
      IN /\ TextLen(full) > MaxContentLength =>
              (TextLen(cut) = MaxContentLength /\ IsPrefix(cut, full))
         /\ TextLen(full) <= MaxContentLength => cut = full
         /\ Truncate(cut) = cut

\* the fallback fetched a page whose text is longer than the maximum
C26_Witness ==
  \E r \in Reqs :
    /\ PageAcquired(r) /\ loc[r].fallback = "ok" /\ Has(r, "model")
    /\ TextLen(CleanText(loc[r].page.body)) > MaxContentLength

\* token is, at this moment, unknown, used or expired
BadToken(token) ==
  \A i \in DOMAIN store.tokens :
    store.tokens[i].token = token =>
      (store.tokens[i].used \/ store.tokens[i].expires_at <= now)

\* r is a reset that was refused
RefusedReset(r) == IsReset(r) /\ Finished(r) /\ err[r] # NoErr

\* this step is taken by the handler of r
StepOf(r) == pc'[r] # pc[r]

\* this step refuses r and writes nothing
RefusesUnchanged(r) ==
  /\ pc'[r] = "done"
  /\ err'[r].name = "ValidationError"
  /\ resp'[r].status = 400 /\ ~resp'[r].success
  /\ store' = store

\* C28: resetPassword with a password of fewer than 6 characters, or with a
\* token that is unknown, used or expired when it is looked up, is refused
\* with a validation error, and the refusing request changes neither the
\* password hash nor the used flag of any token.
C28_RefusedResetWritesNothing ==
  /\ [](\A r \in Reqs :
          RefusedReset(r) =>
            (~Has(r, "passwordUpdated") /\ ~Has(r, "markTokenUsed")
             /\ resp[r].status \in {400, 500}))
  /\ [][\A r \in Reqs :
          /\ (StepOf(r) /\ pc[r] = "idle" /\ inp'[r].route = "resetPassword"
                /\ TextLen(inp'[r].newPassword) < MinPasswordLength)
               => RefusesUnchanged(r)
          /\ (StepOf(r) /\ pc[r] = "getToken" /\ BadToken(inp[r].resetToken))
               => RefusesUnchanged(r)]_vars

\* a reset carrying a used or expired token of the table was refused
C28_Witness ==
  \E r \in Reqs :
    /\ RefusedReset(r)
    /\ err[r] = ValidationError("Invalid or expired reset token")
    /\ \E i \in DOMAIN store.tokens : store.tokens[i].token = inp[r].resetToken
    /\ BadToken(inp[r].resetToken)
    /\ store.hash = OldHash

\* C29: a parseResume request that answers success has inserted exactly one
\* resume row, for the requesting user, whose content is the serialization
\* of the record normalization returned, and the record of the response is
\* that record; a request whose insert failed answers a failure.
C29_OneRowPerSuccess ==
  \A r \in Reqs :
    IsParse(r) =>
      /\ resp[r].success =>
           /\ Cardinality(PersistedBy(r)) = 1
           /\ \A i \in PersistedBy(r) :
                /\ resumes[i].user_id = inp[r].userId
                /\ resumes[i].id = resp[r].resumeId
                /\ resumes[i].content = Stringify(resp[r].parsedContent)
                /\ JSONParse(resumes[i].content).ok
                /\ JSONParse(resumes[i].content).val = resp[r].parsedContent
           /\ resp[r].parsedContent
                = parseResumeAI(loc[r].extractedText, loc[r].api).data
      /\ (Finished(r) /\ Has(r, "createResume") /\ PersistedBy(r) = {}) =>
           (err[r] # NoErr /\ ~resp[r].success /\ resp[r].status = 500)

\* a request answered success with a structured record and its row
C29_Witness ==
  \E r \in Reqs :
    /\ IsParse(r) /\ resp[r].success /\ Cardinality(PersistedBy(r)) = 1
    /\ Get(resp[r].parsedContent, Word("sections")).t = "obj"

\* r is a request to delete a file
IsDelete(r) == inp[r].route = "deleteFile"

\* the record, the blob of file id exists
RecordExists(id) == \E f \in store.files : f.id = id
BlobExists(id) == id \in store.blobs

\* C30: deleteFile removes a file only for its owner; after a success
\* neither the blob nor the record of the file exists; when the blob could
\* not be deleted the record stays and no success is answered.
C30_DeleteSafety ==
  /\ \A f \in FreshStore.files :
       (~RecordExists(f.id) \/ ~BlobExists(f.id)) =>
         \E r \in Reqs :
           /\ IsDelete(r) /\ inp[r].fileId = f.id /\ inp[r].userId = f.user_id
           /\ Has(r, "storageDelete")
  /\ \A r \in Reqs :
       IsDelete(r) =>
         /\ resp[r].success =>
              (~RecordExists(inp[r].fileId) /\ ~BlobExists(inp[r].fileId))
         /\ (pc[r] \in {"delRecord", "done"} /\ Has(r, "storageDelete")
               /\ ~loc[r].storageDeleted /\ BlobExists(inp[r].fileId)) =>
              (RecordExists(inp[r].fileId) /\ ~resp[r].success)

====
